---- MODULE Spec2Model ----
(***************************************************************************)
(* A model of the unified news monitor (src/main.py): the orchestration of *)
(* the startup pass and of the evaluation cycles over the persisted state  *)
(* files, with the text functions the pipeline calls (canonicalisation,    *)
(* fingerprinting, entity matching, contextual similarity) computed on     *)
(* character sequences as the code computes them.                          *)
(*                                                                         *)
(* A text is a sequence of characters; a character is a one-element atom:  *)
(* an ASCII character is the string holding it, and the few non-ASCII      *)
(* characters the code names are "NBSP" (U+00A0), "ENDASH" (U+2013),       *)
(* "EMDASH" (U+2014), "MINUS" (U+2212), and the five characters of the     *)
(* class of main.py line 734 as the file holds them: "ACIRC" (U+00E2),     *)
(* "EURO" (U+20AC), "LDQUO" (U+201C), "RDQUO" (U+201D).                    *)
(***************************************************************************)
EXTENDS Integers, Sequences, FiniteSets, TLC

\* ------------------------------------------------------------------------
\* Characters and strings (Python str operations used by src/main.py)
\* ------------------------------------------------------------------------

UpperChars == <<"A","B","C","D","E","F","G","H","I","J","K","L","M",
                "N","O","P","Q","R","S","T","U","V","W","X","Y","Z">>

LowerChars == <<"a","b","c","d","e","f","g","h","i","j","k","l","m",
                "n","o","p","q","r","s","t","u","v","w","x","y","z">>

Digits == {"0","1","2","3","4","5","6","7","8","9"}

\* str.lower()
Lower(s) ==
    [i \in 1..Len(s) |->
        IF \E k \in 1..26 : UpperChars[k] = s[i]
        THEN LowerChars[CHOOSE k \in 1..26 : UpperChars[k] = s[i]]
        ELSE s[i]]

\* str.upper()
Upper(s) ==
    [i \in 1..Len(s) |->
        IF \E k \in 1..26 : LowerChars[k] = s[i]
        THEN UpperChars[CHOOSE k \in 1..26 : LowerChars[k] = s[i]]
        ELSE s[i]]

\* \s of the re module on str patterns, and the whitespace of str.strip/split
IsSpace(c) == c \in {" ", "\t", "\n", "NBSP"}

\* \w of the re module on str patterns: letters, digits and the underscore
IsWord(c) ==
    \/ c \in Digits
    \/ c = "_"
    \/ c = "ACIRC"
    \/ \E i \in 1..26 : UpperChars[i] = c \/ LowerChars[i] = c

\* s[i..j] (1-based, inclusive; empty when j < i)
Slice(s, i, j) == IF j < i THEN << >> ELSE SubSeq(s, i, j)

\* the first index >= i of s that is not whitespace (Len(s)+1 when none)
RECURSIVE SkipSpaces(_, _)
SkipSpaces(s, i) ==
    IF i <= Len(s) /\ IsSpace(s[i]) THEN SkipSpaces(s, i + 1) ELSE i

\* the first index >= i of s that is not a digit
RECURSIVE SkipDigits(_, _)
SkipDigits(s, i) ==
    IF i <= Len(s) /\ s[i] \in Digits THEN SkipDigits(s, i + 1) ELSE i

\* the last index <= i of s that is not whitespace (0 when none)
RECURSIVE SkipSpacesBack(_, _)
SkipSpacesBack(s, i) ==
    IF i >= 1 /\ IsSpace(s[i]) THEN SkipSpacesBack(s, i - 1) ELSE i

\* str.strip()
Strip(s) == Slice(s, SkipSpaces(s, 1), SkipSpacesBack(s, Len(s)))

\* whether sub occurs in s at index i
StartsAt(s, sub, i) ==
    /\ i >= 1
    /\ i + Len(sub) - 1 <= Len(s)
    /\ \A k \in 1..Len(sub) : s[i + k - 1] = sub[k]

\* s.replace(old, new) for a one-character old
RECURSIVE ReplaceChar(_, _, _)
ReplaceChar(s, old, new) ==
    IF s = << >> THEN << >>
    ELSE (IF Head(s) = old THEN new ELSE <<Head(s)>>) \o ReplaceChar(Tail(s), old, new)

\* re.sub(r'\s+', ' ', s): every run of whitespace becomes one space
RECURSIVE CollapseSpacesFrom(_, _)
CollapseSpacesFrom(s, i) ==
    IF i > Len(s) THEN << >>
    ELSE IF IsSpace(s[i]) THEN <<" ">> \o CollapseSpacesFrom(s, SkipSpaces(s, i))
    ELSE <<s[i]>> \o CollapseSpacesFrom(s, i + 1)

\* str.split(): the maximal runs of non-whitespace characters
RECURSIVE SkipNonSpaces(_, _)
SkipNonSpaces(s, i) ==
    IF i <= Len(s) /\ ~IsSpace(s[i]) THEN SkipNonSpaces(s, i + 1) ELSE i

RECURSIVE SplitFrom(_, _)
SplitFrom(s, i) ==
    LET b == SkipSpaces(s, i) IN
    IF b > Len(s) THEN << >>
    ELSE LET e == SkipNonSpaces(s, b) IN <<Slice(s, b, e - 1)>> \o SplitFrom(s, e)

\* ' '.join(words)
RECURSIVE JoinWords(_)
JoinWords(ws) ==
    IF ws = << >> THEN << >>
    ELSE IF Len(ws) = 1 THEN ws[1]
    ELSE ws[1] \o <<" ">> \o JoinWords(Tail(ws))

\* ------------------------------------------------------------------------
\* Layer A: the conservative canonical form and the fingerprint
\* ------------------------------------------------------------------------

\* The end (exclusive) of a match of \([+-]?\d+\.\d+%\) starting at i, or 0.
PercentMatchEnd(s, i) ==
    IF ~(i <= Len(s) /\ s[i] = "(") THEN 0
    ELSE LET d1 == IF i + 1 <= Len(s) /\ s[i + 1] \in {"+", "-"} THEN i + 2 ELSE i + 1
             e1 == SkipDigits(s, d1)
             e2 == SkipDigits(s, e1 + 1)
         IN IF /\ e1 > d1
               /\ e1 <= Len(s) /\ s[e1] = "."
               /\ e2 > e1 + 1
               /\ e2 + 1 <= Len(s) /\ s[e2] = "%" /\ s[e2 + 1] = ")"
            THEN e2 + 2
            ELSE 0

\* re.sub(r'\([+-]?\d+\.\d+%\)', '', s)
RECURSIVE StripPercentFrom(_, _)
StripPercentFrom(s, i) ==
    IF i > Len(s) THEN << >>
    ELSE LET e == PercentMatchEnd(s, i) IN
         IF e > 0 THEN StripPercentFrom(s, e)
         ELSE <<s[i]>> \o StripPercentFrom(s, i + 1)

\* The end (exclusive) of a match of [class]\s*:\s* starting at i, or 0.
DashColonMatchEnd(s, i, class) ==
    IF ~(i <= Len(s) /\ s[i] \in class) THEN 0
    ELSE LET c == SkipSpaces(s, i + 1) IN
         IF c <= Len(s) /\ s[c] = ":" THEN SkipSpaces(s, c + 1) ELSE 0

\* re.sub(r'[class]\s*:\s*', repl, s)
RECURSIVE SubDashColonFrom(_, _, _, _)
SubDashColonFrom(s, i, class, repl) ==
    IF i > Len(s) THEN << >>
    ELSE LET e == DashColonMatchEnd(s, i, class) IN
         IF e > 0 THEN repl \o SubDashColonFrom(s, e, class, repl)
         ELSE <<s[i]>> \o SubDashColonFrom(s, i + 1, class, repl)

\* The character class of main.py line 734 is, as the file holds it, the
\* hyphen and the characters U+00E2, U+20AC, U+201C, U+201D (not the en and em
\* dashes).
normalize_headline_for_exact_dedup(headline_text) ==
    LET t1 == StripPercentFrom(headline_text, 1)
        t2 == SubDashColonFrom(t1, 1, {"-", "ACIRC", "EURO", "LDQUO", "RDQUO"}, <<":", " ">>)
        t3 == Strip(CollapseSpacesFrom(t2, 1))
    IN Lower(t3)

\* ------------------------------------------------------------------------
\* Entity filter: the watchlist and the exact match
\* ------------------------------------------------------------------------

\* lower[:-len(suffix)].strip() when lower ends with the suffix
StripOneSuffix(lower, suffix) ==
    IF StartsAt(lower, suffix, Len(lower) - Len(suffix) + 1)
    THEN Strip(Slice(lower, 1, Len(lower) - Len(suffix)))
    ELSE lower

\* the suffixes of _strip_suffixes, in the order the loop tries them
CompanySuffixes ==
    << <<" ","l","t","d",".">>, <<" ","l","t","d">>,
       <<" ","l","i","m","i","t","e","d">>, <<" ","c","o",".">>,
       <<" ","c","o","r","p",".">>, <<" ","i","n","c",".">> >>

RECURSIVE StripSuffixesFrom(_, _)
StripSuffixesFrom(lower, k) ==
    IF k > Len(CompanySuffixes) THEN lower
    ELSE StripSuffixesFrom(StripOneSuffix(lower, CompanySuffixes[k]), k + 1)

_strip_suffixes(name) == StripSuffixesFrom(Strip(Lower(name)), 1)

_normalize_company(name) ==
    LET l0 == Lower(_strip_suffixes(name))
        l1 == ReplaceChar(l0, ".", << >>)
        l2 == ReplaceChar(l1, "'", << >>)
        l3 == ReplaceChar(l2, "&", <<" ","a","n","d"," ">>)
    IN Strip(CollapseSpacesFrom(l3, 1))

\* s.split(sep) for a one-character separator
RECURSIVE SplitOn(_, _)
SplitOn(s, sep) ==
    IF \E i \in 1..Len(s) : s[i] = sep
    THEN LET i == CHOOSE i \in 1..Len(s) : s[i] = sep /\ \A j \in 1..(i - 1) : s[j] # sep
         IN <<Slice(s, 1, i - 1)>> \o SplitOn(Slice(s, i + 1, Len(s)), sep)
    ELSE <<s>>

\* dict assignment aliases[key] = value
DictPut(d, key, value) ==
    [k \in (DOMAIN d) \cup {key} |-> IF k = key THEN value ELSE d[k]]

\* the empty dict
EmptyDict == [k \in {} |-> << >>]

\* the Aliases column of one row: every non-empty stripped, lowercased alias
RECURSIVE AddAliases(_, _, _, _)
AddAliases(parts, k, canonical, aliases) ==
    IF k > Len(parts) THEN aliases
    ELSE LET alias_clean == Lower(Strip(parts[k])) IN
         AddAliases(parts, k + 1, canonical,
                    IF alias_clean # << >> THEN DictPut(aliases, alias_clean, canonical)
                    ELSE aliases)

\* companies.add(key); aliases[key] = canonical, under the guard of its if
PutIf(guard, aliases, key, canonical) ==
    IF guard THEN DictPut(aliases, key, canonical) ELSE aliases

\* lines 430-458: canonical, no_spaces and the keys one row adds, in the
\* order the code adds them
LoadKeys(symbol, name, normalized, alias_str, aliases) ==
    LET canonical == IF name # << >> THEN name ELSE symbol
        no_spaces == ReplaceChar(normalized, " ", << >>)
    IN AddAliases(IF alias_str # << >> THEN SplitOn(alias_str, ",") ELSE << >>, 1, canonical,
          PutIf(name # << >> /\ no_spaces # << >> /\ no_spaces # normalized
                   /\ Len(no_spaces) >= 3,
                PutIf(name # << >> /\ normalized # << >> /\ Len(normalized) >= 2,
                      PutIf(symbol # << >> /\ Len(symbol) >= 2,
                            aliases, Lower(symbol), canonical),
                      normalized, canonical),
                no_spaces, canonical))

\* One row of the CSV (the body of the for loop of _load_companies_from_csv).
\* The code adds every key to the set companies and to the dict aliases
\* together, so companies is DOMAIN aliases throughout.
LoadRow(row, aliases) ==
    LoadKeys(Upper(Strip(row.Symbol)), Strip(row.Name),
             _normalize_company(Strip(row.Name)), row.Aliases, aliases)

RECURSIVE LoadRows(_, _, _, _)
LoadRows(rows, k, upto, aliases) ==
    IF k > upto THEN aliases
    ELSE LoadRows(rows, k + 1, upto, LoadRow(rows[k], aliases))

\* A reference list on disk: exists says whether open() finds it, rows are its
\* data rows, and failAfter is the number of rows read before the read raises
\* (Len(rows) + 1 or more: the read never raises; 0: open itself raises).
\* _load_companies_from_csv fills the caller's set and dict in place, so the
\* rows read before an exception stay loaded.
_load_companies_from_csv(file, aliases) ==
    LET upto == IF file.failAfter < Len(file.rows) THEN file.failAfter ELSE Len(file.rows)
    IN LoadRows(file.rows, 1, upto, aliases)

\* whether reading the file ends in an exception other than FileNotFoundError
CsvRaises(file) == file.exists /\ file.failAfter <= Len(file.rows)

\* one try block of load_nifty500_companies: a list that is configured and
\* found is loaded into the set and dict
LoadList(file, configured, aliases) ==
    IF configured /\ file.exists THEN _load_companies_from_csv(file, aliases) ELSE aliases

\* load_nifty500_companies on an empty cache: the primary list, then the
\* additional list when ADDITIONAL_CSV_PATH is configured; a missing or
\* raising list is reported and skipped. Returns the dict aliases (companies
\* is its domain).
LoadWatchlist(primary, additional, additionalConfigured) ==
    LoadList(additional, additionalConfigured, LoadList(primary, TRUE, EmptyDict))

\* is_nifty500_match(company_name) against the loaded set companies
is_nifty500_match(companies, company_name) ==
    IF companies = {} THEN TRUE
    ELSE LET normalized == _normalize_company(company_name)
             no_spaces == ReplaceChar(normalized, " ", << >>)
         IN /\ company_name # << >>
            /\ (normalized \in companies \/ no_spaces \in companies)

\* ------------------------------------------------------------------------
\* Layer B: the aggressive canonical form
\* ------------------------------------------------------------------------

\* re.sub(r'\s*:\s*', ' ', s): a colon with the whitespace around it
RECURSIVE SubColonFrom(_, _)
SubColonFrom(s, i) ==
    IF i > Len(s) THEN << >>
    ELSE LET c == SkipSpaces(s, i) IN
         IF c <= Len(s) /\ s[c] = ":"
         THEN <<" ">> \o SubColonFrom(s, SkipSpaces(s, c + 1))
         ELSE <<s[i]>> \o SubColonFrom(s, i + 1)

\* re.sub(r'(\d),(\d)', r'\1\2', s): one pass over non-overlapping matches
RECURSIVE UngroupDigitsFrom(_, _)
UngroupDigitsFrom(s, i) ==
    IF i > Len(s) THEN << >>
    ELSE IF i + 2 <= Len(s) /\ s[i] \in Digits /\ s[i + 1] = "," /\ s[i + 2] \in Digits
    THEN <<s[i], s[i + 2]>> \o UngroupDigitsFrom(s, i + 3)
    ELSE <<s[i]>> \o UngroupDigitsFrom(s, i + 1)

\* re.sub(r'[^\w\s]', ' ', s)
StripPunctuation(s) ==
    [i \in 1..Len(s) |-> IF IsWord(s[i]) \/ IsSpace(s[i]) THEN s[i] ELSE " "]

\* The substitutions of lines 802-809 on one word. After StripPunctuation a
\* text holds word characters and whitespace only, so \bltd\b and the others
\* match exactly the whitespace-delimited words; "gone" stands for a word
\* replaced by the empty string.
SuffixAndPluralWord(w) ==
    CASE w = <<"l","t","d">> -> "gone"
      [] w = <<"l","i","m","i","t","e","d">> -> "gone"
      [] w = <<"c","r","o","r","e","s">> -> <<"c","r","o","r","e">>
      [] w = <<"n","c","d","s">> -> <<"n","c","d">>
      [] w = <<"s","h","a","r","e","s">> -> <<"s","h","a","r","e">>
      [] w = <<"o","r","d","e","r","s">> -> <<"o","r","d","e","r">>
      [] w = <<"r","u","n","i","t">> -> <<"u","n","i","t">>
      [] w = <<"r","u","n","i","t","s">> -> <<"u","n","i","t">>
      [] OTHER -> w

\* UNIT_CANON: the pairs <<key, value>>
UNIT_CANON ==
    { <<key, <<"c","r","o","r","e">> >> : key \in {
        <<"c","r">>, <<"c","r","s">>, <<"c","r","o","r","e","s">> } }
    \cup
    { <<key, <<"m","i","l","l","i","o","n">> >> : key \in {
        <<"m","n">>, <<"m","l","n">>, <<"m","i","l">> } }
    \cup
    { <<key, <<"b","i","l","l","i","o","n">> >> : key \in {
        <<"b","n">>, <<"b","l","n">> } }
    \cup
    { <<key, <<"l","a","k","h">> >> : key \in {
        <<"l","k">>, <<"l","k","s">>, <<"l","a","k","h","s">>, <<"l","a","c">> } }
    \cup
    { <<key, <<"t","h","o","u","s","a","n","d">> >> : key \in {
        <<"k">> } }
    \cup
    { <<key, <<"t","r","i","l","l","i","o","n">> >> : key \in {
        <<"t","n">> } }
    \cup
    { <<key, <<"r","u","p","e","e","s">> >> : key \in {
        <<"r","s">>, <<"i","n","r">> } }

\* VERB_CANON: the pairs <<key, value>> (the key 'rolls out' holds a space and
\* equals no word of a split text)
VERB_CANON ==
    { <<key, <<"w","i","n","s">> >> : key \in {
        <<"s","e","c","u","r","e","d">>, <<"b","a","g","g","e","d">>, <<"g","o","t">>,
        <<"r","e","c","e","i","v","e","s">>, <<"a","w","a","r","d","e","d">>,
        <<"c","l","i","n","c","h","e","s">>, <<"g","r","a","b","s">>,
        <<"o","b","t","a","i","n","s">> } }
    \cup
    { <<key, <<"i","n","c","r","e","a","s","e","s">> >> : key \in {
        <<"r","i","s","e","s">>, <<"s","u","r","g","e","s">>, <<"j","u","m","p","s">>,
        <<"s","o","a","r","s">>, <<"c","l","i","m","b","s">>, <<"g","a","i","n","s">> } }
    \cup
    { <<key, <<"d","e","c","r","e","a","s","e","s">> >> : key \in {
        <<"f","a","l","l","s">>, <<"d","r","o","p","s">>,
        <<"d","e","c","l","i","n","e","s">>, <<"d","i","p","s">>,
        <<"s","l","i","p","s">>, <<"t","u","m","b","l","e","s">>,
        <<"p","l","u","n","g","e","s">>, <<"s","l","u","m","p","s">> } }
    \cup
    { <<key, <<"b","u","y","s">> >> : key \in {
        <<"a","c","q","u","i","r","e","s">>, <<"p","u","r","c","h","a","s","e","s">> } }
    \cup
    { <<key, <<"i","n","t","r","o","d","u","c","e","s">> >> : key \in {
        <<"l","a","u","n","c","h","e","s">>, <<"u","n","v","e","i","l","s">>,
        <<"r","o","l","l","s"," ","o","u","t">> } }
    \cup
    { <<key, <<"n","a","m","e","s">> >> : key \in {
        <<"a","p","p","o","i","n","t","s">>,
        <<"d","e","s","i","g","n","a","t","e","s">>, <<"e","l","e","v","a","t","e","s">> } }

\* the loop body of lines 814-820 on one word
CanonWord(w) ==
    IF \E p \in UNIT_CANON : p[1] = w THEN (CHOOSE p \in UNIT_CANON : p[1] = w)[2]
    ELSE IF \E p \in VERB_CANON : p[1] = w THEN (CHOOSE p \in VERB_CANON : p[1] = w)[2]
    ELSE w

\* lines 802-820 on the words of the text: the suffix and plural substitutions,
\* then the split, then the unit and verb dictionaries
RECURSIVE CanonWords(_)
CanonWords(ws) ==
    IF ws = << >> THEN << >>
    ELSE LET w == SuffixAndPluralWord(Head(ws)) IN
         IF w = "gone" THEN CanonWords(Tail(ws))
         ELSE <<CanonWord(w)>> \o CanonWords(Tail(ws))

canonicalize_for_context(text) ==
    LET t0 == Strip(Lower(text))
        t1 == StripPercentFrom(t0, 1)
        t2 == SubDashColonFrom(t1, 1, {"-", "ENDASH", "EMDASH"}, <<" ">>)
        t3 == SubColonFrom(t2, 1)
        t4 == ReplaceChar(t3, "NBSP", <<" ">>)
        t5 == UngroupDigitsFrom(UngroupDigitsFrom(t4, 1), 1)
        t6 == StripPunctuation(t5)
    IN JoinWords(CanonWords(SplitFrom(t6, 1)))

\* ------------------------------------------------------------------------
\* Layer B: the signals and the weighted score
\* ------------------------------------------------------------------------

\* the smaller of two naturals
Min(a, b) == IF a <= b THEN a ELSE b

\* Rational numbers <<n, d>> with d > 0, kept in lowest terms: the model's
\* exact stand-in for the floats of the score.
RECURSIVE GCD(_, _)
GCD(a, b) == IF b = 0 THEN a ELSE GCD(b, a % b)

Rat(n, d) == LET g == GCD(n, d) IN IF n = 0 THEN <<0, 1>> ELSE <<n \div g, d \div g>>

RatAdd(x, y) == Rat(x[1] * y[2] + y[1] * x[2], x[2] * y[2])

RatMul(x, y) == Rat(x[1] * y[1], x[2] * y[2])

RatLeq(x, y) == x[1] * y[2] <= y[1] * x[2]

\* the value of a run of digits
RECURSIVE IntVal(_)
IntVal(ds) ==
    IF ds = << >> THEN 0 ELSE 10 * IntVal(Slice(ds, 1, Len(ds) - 1))
         + (CHOOSE v \in 0..9 : <<"0","1","2","3","4","5","6","7","8","9">>[v + 1] = ds[Len(ds)])

\* the digits of a fraction without its trailing zeros
RECURSIVE TrimZeros(_)
TrimZeros(ds) ==
    IF ds # << >> /\ ds[Len(ds)] = "0" THEN TrimZeros(Slice(ds, 1, Len(ds) - 1)) ELSE ds

\* re.findall(r'(\d+(?:\.\d+)?)', s) as the set of the values above zero. The
\* float of a literal is held as its integer part and its fraction digits,
\* equal exactly when the floats are (for literals a float holds exactly).
RECURSIVE FindNumbersFrom(_, _)
FindNumbersFrom(s, i) ==
    IF i > Len(s) THEN {}
    ELSE IF s[i] \notin Digits THEN FindNumbersFrom(s, i + 1)
    ELSE LET e1 == SkipDigits(s, i)
             hasFrac == e1 + 1 <= Len(s) /\ s[e1] = "." /\ s[e1 + 1] \in Digits
             e2 == IF hasFrac THEN SkipDigits(s, e1 + 1) ELSE e1
             val == <<IntVal(Slice(s, i, e1 - 1)),
                      TrimZeros(IF hasFrac THEN Slice(s, e1 + 1, e2 - 1) ELSE << >>)>>
         IN (IF val[1] > 0 \/ val[2] # << >> THEN {val} ELSE {}) \cup FindNumbersFrom(s, e2)

extract_numbers(text) == FindNumbersFrom(UngroupDigitsFrom(UngroupDigitsFrom(text, 1), 1), 1)

\* set(re.findall(r'\b\w+\b', s)): the maximal runs of word characters
RECURSIVE SkipWordChars(_, _)
SkipWordChars(s, i) ==
    IF i <= Len(s) /\ IsWord(s[i]) THEN SkipWordChars(s, i + 1) ELSE i

RECURSIVE WordTokensFrom(_, _)
WordTokensFrom(s, i) ==
    IF i > Len(s) THEN {}
    ELSE IF ~IsWord(s[i]) THEN WordTokensFrom(s, i + 1)
    ELSE LET e == SkipWordChars(s, i) IN {Slice(s, i, e - 1)} \cup WordTokensFrom(s, e)

\* the canonical names (lowercased) of the aliases found in one text
CompaniesIn(text_lower, aliases) ==
    LET tokens == WordTokensFrom(text_lower, 1) IN
    { Lower(aliases[alias]) :
        alias \in { al \in DOMAIN aliases :
                      /\ Len(al) >= 3
                      /\ IF \E k \in 1..Len(al) : al[k] = " "
                         THEN \E i \in 1..(Len(text_lower) + 1) : StartsAt(text_lower, al, i)
                         ELSE al \in tokens } }

\* lines 879-888: the containment of the smaller set of companies in the other
AliasContainment(companies_a, companies_b) ==
    IF companies_a = {} \/ companies_b = {} THEN <<0, 1>>
    ELSE Rat(Cardinality(companies_a \cap companies_b),
             Min(Cardinality(companies_a), Cardinality(companies_b)))

company_alias_overlap(text_a, text_b, aliases) ==
    AliasContainment(CompaniesIn(Lower(text_a), aliases), CompaniesIn(Lower(text_b), aliases))

\* difflib.SequenceMatcher(None, a, b) on texts shorter than 200 characters,
\* where no character of b is dropped as "popular".
\* the length of the common run of a from i and b from j, below ahi and bhi
RunLength(a, b, i, j, ahi, bhi) ==
    LET room == Min(ahi - i, bhi - j) + 1
    IN CHOOSE k \in 0..room :
          /\ \A t \in 0..(k - 1) : a[i + t] = b[j + t]
          /\ (k = room \/ a[i + k] # b[j + k])

\* find_longest_match(alo, ahi, blo, bhi) (bounds inclusive here): the longest
\* block, of those the one starting earliest in a, of those the earliest in b
find_longest_match(a, b, alo, ahi, blo, bhi) ==
    LET cand == { <<i, j, RunLength(a, b, i, j, ahi, bhi)>> : i \in alo..ahi, j \in blo..bhi }
        best == { c \in cand : \A d \in cand : d[3] <= c[3] }
        first == CHOOSE c \in best :
                    \A d \in best : c[1] < d[1] \/ (c[1] = d[1] /\ c[2] <= d[2])
    IN IF cand = {} THEN <<alo, blo, 0>> ELSE first

\* the sum of the sizes of get_matching_blocks()
RECURSIVE MatchedChars(_, _, _, _, _, _)
MatchedChars(a, b, alo, ahi, blo, bhi) ==
    IF alo > ahi \/ blo > bhi THEN 0
    ELSE LET m == find_longest_match(a, b, alo, ahi, blo, bhi) IN
         IF m[3] = 0 THEN 0
         ELSE m[3] + MatchedChars(a, b, alo, m[1] - 1, blo, m[2] - 1)
                   + MatchedChars(a, b, m[1] + m[3], ahi, m[2] + m[3], bhi)

\* SequenceMatcher(None, a, b).ratio()
SequenceRatio(a, b) ==
    IF Len(a) + Len(b) = 0 THEN <<1, 1>>
    ELSE Rat(2 * MatchedChars(a, b, 1, Len(a), 1, Len(b)), Len(a) + Len(b))

\* the stop words dropped before the content-word signals
STOP_WORDS ==
    {
      <<"a">>, <<"a","n">>, <<"t","h","e">>, <<"i","n">>, <<"o","n">>,
      <<"a","t">>, <<"t","o">>, <<"f","o","r">>, <<"o","f">>, <<"b","y">>,
      <<"f","r","o","m">>, <<"w","i","t","h">>, <<"a","s">>, <<"i","s">>,
      <<"w","a","s">>, <<"a","r","e">>, <<"w","e","r","e">>, <<"b","e">>,
      <<"b","e","e","n">>, <<"b","e","i","n","g">>, <<"a","n","d">>,
      <<"o","r">>, <<"n","o","t">>, <<"i","t">>, <<"i","t","s">>,
      <<"t","h","i","s">>, <<"t","h","a","t">>, <<"h","a","s">>,
      <<"h","a","v","e">>, <<"h","a","d">>, <<"w","i","l","l">>,
      <<"w","o","u","l","d">>, <<"c","a","n">>, <<"c","o","u","l","d">>,
      <<"s","h","o","u","l","d">>, <<"m","a","y">>, <<"m","i","g","h","t">>,
      <<"s","h","a","l","l">>, <<"d","o">>, <<"d","o","e","s">>,
      <<"d","i","d">>, <<"b","u","t">>, <<"i","f">>, <<"s","o">>,
      <<"n","o">>, <<"u","p">>, <<"o","u","t">>, <<"i","n","t","o">>,
      <<"t","h","a","n">>, <<"t","h","e","n">>, <<"a","l","s","o">>,
      <<"a","b","o","u","t">>, <<"a","f","t","e","r">>,
      <<"b","e","f","o","r","e">>, <<"b","e","t","w","e","e","n">>,
      <<"t","h","r","o","u","g","h">>, <<"d","u","r","i","n","g">>,
      <<"a","b","o","v","e">>, <<"b","e","l","o","w">>, <<"o","v","e","r">>,
      <<"u","n","d","e","r">>, <<"p","e","r">>, <<"v","i","a">>, <<"v","s">>,
      <<"a","l","l">>, <<"e","a","c","h">>, <<"e","v","e","r","y">>,
      <<"b","o","t","h">>, <<"m","o","r","e">>, <<"m","o","s","t">>,
      <<"o","t","h","e","r">>, <<"s","o","m","e">>, <<"s","u","c","h">>,
      <<"o","n","l","y">>, <<"o","w","n">>, <<"s","a","m","e">>,
      <<"v","e","r","y">>, <<"j","u","s","t">>, <<"s">>, <<"u","s">> }

\* set(w for w in words if w not in STOP_WORDS and len(w) > 2)
ContentWords(canon) ==
    LET words == SplitFrom(canon, 1) IN
    { words[k] : k \in { k \in 1..Len(words) : words[k] \notin STOP_WORDS /\ Len(words[k]) > 2 } }

\* the weighted sum of <<weight in hundredths, signal>> pairs
RECURSIVE WeightedSum(_)
WeightedSum(terms) ==
    IF terms = << >> THEN <<0, 1>>
    ELSE RatAdd(RatMul(Rat(Head(terms)[1], 100), Head(terms)[2]), WeightedSum(Tail(terms)))

\* lines 923-931: the Jaccard overlap of the content words
ContentJaccard(content_a, content_b) ==
    IF content_a # {} /\ content_b # {}
    THEN Rat(Cardinality(content_a \cap content_b), Cardinality(content_a \cup content_b))
    ELSE <<0, 1>>

\* lines 923-931: the containment of the shorter headline's content words
ContentContainment(content_a, content_b) ==
    IF content_a # {} /\ content_b # {}
    THEN Rat(Cardinality(content_a \cap content_b),
             Min(Cardinality(content_a), Cardinality(content_b)))
    ELSE <<0, 1>>

\* lines 936-941: the overlap of the numbers, neutral when neither text has one
NumOverlap(nums_a, nums_b) ==
    IF nums_a # {} \/ nums_b # {}
    THEN Rat(Cardinality(nums_a \cap nums_b), Cardinality(nums_a \cup nums_b))
    ELSE <<1, 2>>

\* the weighted combination with the weights of the enabled configuration
\* kept when the embedding signal is omitted
WeightedScoreNotRedistributed(seq_score, content_jaccard, content_containment, num_overlap, company_score, embedding) ==
    IF embedding # << >>
    THEN WeightedSum(<< <<15, seq_score>>, <<15, content_jaccard>>,
                        <<15, content_containment>>, <<10, num_overlap>>,
                        <<25, company_score>>, <<10, embedding[1]>> >>)
    ELSE WeightedSum(<< <<15, seq_score>>, <<15, content_jaccard>>,
                        <<15, content_containment>>, <<10, num_overlap>>,
                        <<25, company_score>> >>)

\* lines 955-973: the weighted combination
WeightedScore(seq_score, content_jaccard, content_containment, num_overlap, company_score, embedding) ==
    IF embedding # << >>
    THEN WeightedSum(<< <<15, seq_score>>, <<15, content_jaccard>>,
                        <<15, content_containment>>, <<10, num_overlap>>,
                        <<25, company_score>>, <<10, embedding[1]>> >>)
    ELSE WeightedSum(<< <<20, seq_score>>, <<20, content_jaccard>>,
                        <<20, content_containment>>, <<15, num_overlap>>,
                        <<25, company_score>> >>)

\* lines 975-980: the same-company bonus and the cap at 1.0
BonusAndCap(score, company_score) ==
    LET bonused == IF RatLeq(<<1, 2>>, company_score) THEN RatAdd(score, <<8, 100>>)
                   ELSE score
    IN IF RatLeq(bonused, <<1, 1>>) THEN bonused ELSE <<1, 1>>

\* lines 914-980: the signals of two canonical texts and their combination
CanonicalScore(canon_a, canon_b, company_score, embedding) ==
    BonusAndCap(
        WeightedScore(SequenceRatio(canon_a, canon_b),
                      ContentJaccard(ContentWords(canon_a), ContentWords(canon_b)),
                      ContentContainment(ContentWords(canon_a), ContentWords(canon_b)),
                      NumOverlap(extract_numbers(canon_a), extract_numbers(canon_b)),
                      company_score, embedding),
        company_score)

\* contextual_similarity_score(headline_a, headline_b) with the watchlist's
\* aliases; embedding is << >> when ENABLE_EMBEDDING_DEDUP is off or
\* compute_embedding_similarity raises, else <<cos_sim>>, the cosine it
\* returned.
contextual_similarity_score(headline_a, headline_b, aliases, embedding) ==
    CanonicalScore(canonicalize_for_context(headline_a),
                   canonicalize_for_context(headline_b),
                   company_alias_overlap(headline_a, headline_b, aliases), embedding)

\* ------------------------------------------------------------------------
\* Category filter: results and earnings headlines
\* ------------------------------------------------------------------------

\* whether the word w (starting and ending with word characters) stands at
\* index i of s between two \b boundaries
WordAt(s, w, i) ==
    /\ StartsAt(s, w, i)
    /\ (i = 1 \/ ~IsWord(s[i - 1]))
    /\ (i + Len(w) > Len(s) \/ ~IsWord(s[i + Len(w)]))

\* the earnings keywords looked for as substrings once a quarter is named
EarningsKeywords ==
    { <<"n","e","t"," ","p","r","o","f","i","t">>,
      <<"n","e","t"," ","l","o","s","s">>,
      <<"r","e","v","e","n","u","e">>,
      <<"e","b","i","t","d","a">>,
      <<"e","b","i","t","d","a"," ","m","a","r","g","i","n">>,
      <<"r","u","p","e","e","s"," ","v","s">>,
      <<"r","u","p","e","e","s"," ","v","s",".">>,
      <<"y","o","y">>,
      <<"q","o","q">>,
      <<"e","s","t"," ">>,
      <<"m","a","r","g","i","n">>,
      <<"t","o","p","l","i","n","e">>,
      <<"b","o","t","t","o","m","l","i","n","e">>,
      <<"b","o","t","t","o","m"," ","l","i","n","e">>,
      <<"t","o","p"," ","l","i","n","e">>,
      <<"p","r","o","f","i","t"," ","a","f","t","e","r"," ","t","a","x">>,
      <<"p","a","t"," ">>,
      <<"s","a","l","e","s"," ">> }

\* whether "." of a regular expression matches every character of s[i..j]
NoNewline(s, i, j) == \A k \in i..j : s[k] # "\n"

\* re.search(r'\bw1\b.*\bw2\b', s)
TwoWordsInOrder(s, w1, w2) ==
    \E i \in 1..Len(s) : \E j \in 1..Len(s) :
        /\ WordAt(s, w1, i) /\ WordAt(s, w2, j)
        /\ j >= i + Len(w1)
        /\ NoNewline(s, i + Len(w1), j - 1)

\* re.search(r'\bw1\b.*\bw2\b.*\bw3\b', s)
ThreeWordsInOrder(s, w1, w2, w3) ==
    \E i \in 1..Len(s) : \E j \in 1..Len(s) : \E k \in 1..Len(s) :
        /\ WordAt(s, w1, i) /\ WordAt(s, w2, j) /\ WordAt(s, w3, k)
        /\ j >= i + Len(w1) /\ k >= j + Len(w2)
        /\ NoNewline(s, i + Len(w1), k - 1)

\* re.search(r'\bw\b', s)
HasWord(s, w) == \E i \in 1..Len(s) : WordAt(s, w, i)


is_results_headline(headline_text, category) ==
    LET cat == Lower(Strip(category))
        text_lower == Lower(headline_text)
        net_profit == <<"n","e","t"," ","p","r","o","f","i","t">>
        net_loss == <<"n","e","t"," ","l","o","s","s">>
        rupees == <<"r","u","p","e","e","s">>
    IN \/ cat \in { <<"r","e","s","u","l","t">>, <<"r","e","s","u","l","t","s">>,
                    <<"e","a","r","n","i","n","g">>, <<"e","a","r","n","i","n","g","s">> }
       \/ /\ \E i \in 1..(Len(text_lower) - 1) :
                \E d \in {"1", "2", "3", "4"} : WordAt(text_lower, <<"q", d>>, i)
          /\ \E kw \in EarningsKeywords :
                \E i \in 1..(Len(text_lower) + 1) : StartsAt(text_lower, kw, i)
       \/ TwoWordsInOrder(text_lower, net_profit, rupees)
       \/ TwoWordsInOrder(text_lower, net_loss, rupees)
       \/ ThreeWordsInOrder(text_lower, <<"r","e","v","e","n","u","e">>, rupees, <<"y","o","y">>)
       \/ ThreeWordsInOrder(text_lower, <<"e","b","i","t","d","a">>, rupees, <<"y","o","y">>)
       \/ HasWord(text_lower, <<"s","l"," ">> \o net_profit)
       \/ HasWord(text_lower, <<"c","o","n","s"," ">> \o net_profit)
       \/ HasWord(text_lower, <<"s","l"," ">> \o net_loss)
       \/ HasWord(text_lower, <<"c","o","n","s"," ">> \o net_loss)

\* ------------------------------------------------------------------------
\* The texts of the model
\* ------------------------------------------------------------------------

\* The state holds a text as a string; Chars gives the characters the
\* program's text functions read.
Chars ==
    "Natco Pharma receives EIR from USFDA (-1.2%)" :> <<"N","a","t","c","o"," ","P","h","a","r","m","a"," ","r","e","c","e","i","v","e","s"," ","E","I","R"," ","f","r","o","m"," ","U","S","F","D","A"," ","(","-","1",".","2","%",")">>
    @@ "Natco Pharma receives EIR from USFDA (+3.4%)" :> <<"N","a","t","c","o"," ","P","h","a","r","m","a"," ","r","e","c","e","i","v","e","s"," ","E","I","R"," ","f","r","o","m"," ","U","S","F","D","A"," ","(","+","3",".","4","%",")">>
    @@ "Natco Pharma gets EIR from USFDA" :> <<"N","a","t","c","o"," ","P","h","a","r","m","a"," ","g","e","t","s"," ","E","I","R"," ","f","r","o","m"," ","U","S","F","D","A">>
    @@ "Reliance Q3 net profit rises 10% YoY" :> <<"R","e","l","i","a","n","c","e"," ","Q","3"," ","n","e","t"," ","p","r","o","f","i","t"," ","r","i","s","e","s"," ","1","0","%"," ","Y","o","Y">>
    @@ "Natco Pharma plans USFDA nod from govt" :> <<"N","a","t","c","o"," ","P","h","a","r","m","a"," ","p","l","a","n","s"," ","U","S","F","D","A"," ","n","o","d"," ","f","r","o","m"," ","g","o","v","t">>
    @@ "Natco Pharma receives approval" :> <<"N","a","t","c","o"," ","P","h","a","r","m","a"," ","r","e","c","e","i","v","e","s"," ","a","p","p","r","o","v","a","l">>
    @@ "Reliance bags order in India" :> <<"R","e","l","i","a","n","c","e"," ","b","a","g","s"," ","o","r","d","e","r"," ","i","n"," ","I","n","d","i","a">>
    @@ "" :> << >>
    @@ "Natco Pharma Limited" :> <<"N","a","t","c","o"," ","P","h","a","r","m","a"," ","L","i","m","i","t","e","d">>
    @@ "RIL" :> <<"R","I","L">>
    @@ "Reliance" :> <<"R","e","l","i","a","n","c","e">>
    @@ "Equity" :> <<"E","q","u","i","t","y">>
    @@ "Result" :> <<"R","e","s","u","l","t">>
    @@ "RELIANCE" :> <<"R","E","L","I","A","N","C","E">>
    @@ "NATCOPHARM" :> <<"N","A","T","C","O","P","H","A","R","M">>
    @@ "Natco Pharma Ltd." :> <<"N","a","t","c","o"," ","P","h","a","r","m","a"," ","L","t","d",".">>
    @@ "TCS" :> <<"T","C","S">>
    @@ "500" :> <<"5","0","0">>
    @@ "ABC wins order (-1.2%)" :> <<"A","B","C"," ","w","i","n","s"," ","o","r","d","e","r"," ","(","-","1",".","2","%",")">>
    @@ "ABC wins order (+3.4%)" :> <<"A","B","C"," ","w","i","n","s"," ","o","r","d","e","r"," ","(","+","3",".","4","%",")">>
    @@ "ABC wins order (U+2212 1.2%)" :> <<"A","B","C"," ","w","i","n","s"," ","o","r","d","e","r"," ","(","MINUS","1",".","2","%",")">>
    @@ "ABC wins order (+3%)" :> <<"A","B","C"," ","w","i","n","s"," ","o","r","d","e","r"," ","(","+","3","%",")">>
    @@ "ABC wins another order" :> <<"A","B","C"," ","w","i","n","s"," ","a","n","o","t","h","e","r"," ","o","r","d","e","r">>
    @@ "ABC wins order -- : details" :> <<"A","B","C"," ","w","i","n","s"," ","o","r","d","e","r"," ","-","-"," ",":"," ","d","e","t","a","i","l","s">>

\* headlines the Nuvama page shows (30 to 1500 characters) with the category
\* tag on the line after the timestamp: the second is the first with another
\* price move
NuvamaItems ==
    { [headline |-> "Natco Pharma receives EIR from USFDA (-1.2%)", category |-> "Equity"],
      [headline |-> "Natco Pharma receives EIR from USFDA (+3.4%)", category |-> "Result"] }

\* headlines the Stockwatch dashboard links to (15 characters or more) with
\* the company of the link
StockwatchItems ==
    { [headline |-> "Natco Pharma gets EIR from USFDA", company |-> "Natco Pharma Limited"],
      [headline |-> "Reliance Q3 net profit rises 10% YoY", company |-> "RIL"] }

\* every headline text the feeds and the Layer B inputs are drawn from
Headlines ==
    { it.headline : it \in NuvamaItems \cup StockwatchItems }
    \cup { "Natco Pharma plans USFDA nod from govt", "Natco Pharma receives approval",
           "Reliance bags order in India" }

Companies == { "", "Reliance" } \cup { it.company : it \in StockwatchItems }

\* ------------------------------------------------------------------------
\* Timestamps
\* ------------------------------------------------------------------------

\* Time is counted in minutes. A datetime is <<t>>; Python's None is << >>.
None == << >>

MinutesPerDay == 24 * 60

\* a year of 365 days
MinutesPerYear == 365 * MinutesPerDay

\* A raw timestamp is [kind, n]:
\*   "just_now"      "Just Now"
\*   "mins_ago"      "<n> mins ago"
\*   "hours_ago"     "<n> hours ago"
\*   "absolute"      "03 Nov 08:26 AM", n the minute of the year
\*   "leap_day"      "29 Feb 08:26 AM", n the minute of the day
\*   "stockwatch"    "4m ago | 07:42 PM 12-02-2026", n the minute it names
\*   "bad_absolute"  the shape of an absolute timestamp naming no date ("31 Feb 08:26 AM")
\*   "empty"         no timestamp text
\*   "long_text"     any other text of more than 50 characters
Timestamp(kind, n) == [kind |-> kind, n |-> n]

\* parse_timestamp_to_datetime at the time now_ist. strptime builds the date
\* of a text without a year in 1900, which has no 29 February, and raises for
\* "29 Feb ..." before line 122 attaches the current year.
parse_timestamp_to_datetime(publish_timestamp, now_ist) ==
    CASE publish_timestamp.kind = "just_now" -> <<now_ist>>
      [] publish_timestamp.kind = "mins_ago" -> <<now_ist - publish_timestamp.n>>
      [] publish_timestamp.kind = "hours_ago" -> <<now_ist - 60 * publish_timestamp.n>>
      [] publish_timestamp.kind = "absolute" ->
            <<(now_ist \div MinutesPerYear) * MinutesPerYear + publish_timestamp.n>>
      [] publish_timestamp.kind = "leap_day" -> None
      [] publish_timestamp.kind = "stockwatch" -> <<publish_timestamp.n>>
      [] OTHER -> None

\* datetime_obj.strftime('%d %b %I:%M %p'): day, month and time, no year
FormatTimestamp(t) == Timestamp("absolute", t % MinutesPerYear)

\* datetime_obj.strftime('%Y-%m-%d'): the day
FormatDate(t) == t \div MinutesPerDay

\* ------------------------------------------------------------------------
\* The reference lists on disk and the tables of the text functions
\* ------------------------------------------------------------------------

\* the primary list: the RELIANCE row has no company name, so "reliance" is
\* its only alias
NiftyCsv ==
    [exists |-> TRUE,
     rows |-> << [Symbol |-> Chars["RELIANCE"], Name |-> << >>, Aliases |-> << >>],
                 [Symbol |-> Chars["NATCOPHARM"], Name |-> Chars["Natco Pharma Ltd."],
                  Aliases |-> << >>] >>,
     failAfter |-> 3]

\* a path no file is at
MissingCsv == [exists |-> FALSE, rows |-> << >>, failAfter |-> 1]

\* the installations of the monitor: NIFTY500_CSV_PATH, ADDITIONAL_CSV_PATH
\* and whether the latter is configured
CsvFiles ==
    "installed" :> [primary |-> NiftyCsv, additional |-> MissingCsv, configured |-> FALSE]
    @@ "missing" :> [primary |-> MissingCsv, additional |-> MissingCsv, configured |-> FALSE]

\* _nifty500_aliases as load_nifty500_companies caches it; _nifty500_companies
\* is its domain
Watchlist ==
    [w \in DOMAIN CsvFiles |->
        LoadWatchlist(CsvFiles[w].primary, CsvFiles[w].additional, CsvFiles[w].configured)]

Matches ==
    [w \in DOMAIN CsvFiles, c \in Companies |->
        is_nifty500_match(DOMAIN Watchlist[w], Chars[c])]

\* h_id: hashlib.md5 of the normalized headline, a digest that stands for the
\* text it was computed from
Fingerprint == [h \in Headlines |-> normalize_headline_for_exact_dedup(Chars[h])]

IsResults ==
    [h \in Headlines, c \in { "" } \cup { it.category : it \in NuvamaItems } |-> is_results_headline(Chars[h], Chars[c])]

\* ENABLE_EMBEDDING_DEDUP is off by default: no embedding signal
Score ==
    [w \in DOMAIN CsvFiles, a \in Headlines, b \in Headlines |->
        contextual_similarity_score(Chars[a], Chars[b], Watchlist[w], << >>)]

\* ------------------------------------------------------------------------
\* Layer B: the memory window
\* ------------------------------------------------------------------------

CONTEXTUAL_DEDUP_THRESHOLD == Rat(68, 100)

\* the comparison loop without its same-source skip
SameSourceNever(source, entry_source) == FALSE

\* the test that skips an entry of the incoming record's own source
SameSource(source, entry_source) ==
    source # "" /\ entry_source # "" /\ entry_source = source

\* the duplicate test with > for >=
AtThresholdStrict(best_score) == ~RatLeq(best_score, CONTEXTUAL_DEDUP_THRESHOLD)

\* is_dup = best_score >= CONTEXTUAL_DEDUP_THRESHOLD
AtThreshold(best_score) == RatLeq(CONTEXTUAL_DEDUP_THRESHOLD, best_score)

\* lines 1036-1038: a score above the best so far replaces it
Improved(best, score, stored_headline) ==
    IF ~RatLeq(score, best.best_score)
    THEN [best_score |-> score, best_match |-> stored_headline]
    ELSE best

\* the loop of is_context_duplicate from entry k on
RECURSIVE BestMatchFrom(_, _, _, _, _, _)
BestMatchFrom(headline_text, memory, source, w, k, best) ==
    IF k > Len(memory) THEN best
    ELSE BestMatchFrom(headline_text, memory, source, w, k + 1,
             IF SameSource(source, memory[k].source) THEN best
             ELSE Improved(best, Score[w, headline_text, memory[k].headline],
                           memory[k].headline))

\* lines 1040-1041: the triple returned for the best match
Verdict(best) ==
    [is_dup |-> AtThreshold(best.best_score),
     best_score |-> best.best_score, best_match |-> best.best_match]

\* is_context_duplicate under the watchlist of installation w; returns
\* (is_dup, best_score, best_match)
is_context_duplicate(headline_text, memory, source, w) ==
    IF memory = << >>
    THEN [is_dup |-> FALSE, best_score |-> <<0, 1>>, best_match |-> ""]
    ELSE Verdict(BestMatchFrom(headline_text, memory, source, w, 1,
                               [best_score |-> <<0, 1>>, best_match |-> ""]))

\* add_to_context_memory; the entry's canonical text and tokens are computed
\* from the headline and read by nothing, and the embedding is None
add_to_context_memory(memory, headline_text, source, company, now_ist) ==
    Append(memory, [headline |-> headline_text, timestamp |-> now_ist,
                    source |-> source, company |-> company])

MEMORY_LIMIT == 200

\* errors[-100:] of log_error
ERROR_LOG_LIMIT == 100

MEMORY_HOURS == 24

\* the loop of save_context_memory keeping every entry
PrunedKeepAll(memory, cutoff) == memory

\* lines 999-1006: the entries whose time is after the cutoff, in their order
Pruned(memory, cutoff) ==
    LET after_cutoff(entry) == entry.timestamp > cutoff
    IN SelectSeq(memory, after_cutoff)

\* what save_context_memory writes: the entries of the last 24 hours, the
\* newest 200 of them
save_context_memory(memory, now_ist) ==
    LET pruned == Pruned(memory, now_ist - MEMORY_HOURS * 60)
    IN SubSeq(pruned, Len(pruned) - Min(Len(pruned), MEMORY_LIMIT) + 1, Len(pruned))

\* ------------------------------------------------------------------------
\* The archive
\* ------------------------------------------------------------------------

ARCHIVE_LIMIT == 100

\* save_headline_to_db putting the new entry last
SaveHeadlineLast(db, headline_text, publish_timestamp, source, company, now_ist) ==
    SubSeq(Append(db, [headline |-> headline_text, timestamp |-> publish_timestamp,
                       date |-> FormatDate(now_ist), source |-> source, company |-> company]),
           1, Min(Len(db) + 1, ARCHIVE_LIMIT))

\* what save_headline_to_db writes, given the archive it read
save_headline_to_db(db, headline_text, publish_timestamp, source, company, now_ist) ==
    LET datetime_obj == parse_timestamp_to_datetime(publish_timestamp, now_ist)
        formatted_timestamp ==
            IF datetime_obj # None THEN FormatTimestamp(datetime_obj[1])
            ELSE IF publish_timestamp.kind = "long_text" THEN FormatTimestamp(now_ist)
            ELSE publish_timestamp
        formatted_date ==
            IF datetime_obj # None THEN FormatDate(datetime_obj[1]) ELSE FormatDate(now_ist)
        entry == [headline |-> headline_text, timestamp |-> formatted_timestamp,
                  date |-> formatted_date, source |-> source, company |-> company]
        inserted == <<entry>> \o db
    IN SubSeq(inserted, 1, Min(Len(inserted), ARCHIVE_LIMIT))

\* the loop of cleanup_database from entry k on: the entries kept
RECURSIVE CleanedFrom(_, _, _, _)
CleanedFrom(db, w, k, seen_headlines) ==
    IF k > Len(db) THEN << >>
    ELSE LET entry == db[k] IN
         IF entry.headline \in seen_headlines
         THEN CleanedFrom(db, w, k + 1, seen_headlines)
         ELSE IF entry.source = "STOCKWATCH" /\ DOMAIN Watchlist[w] # {}
                 /\ ~Matches[w, entry.company]
         THEN CleanedFrom(db, w, k + 1, seen_headlines \cup {entry.headline})
         ELSE <<entry>> \o CleanedFrom(db, w, k + 1, seen_headlines \cup {entry.headline})

\* lines 670-674: the file is written when removed > 0
Rewritten(cleaned, db) == IF Len(cleaned) < Len(db) THEN cleaned ELSE db

\* The archive after cleanup_database: it is rewritten only when an entry was
\* removed. An archived timestamp is a formatted time or a raw timestamp of at
\* most 50 characters, so the repair of longer ones changes nothing.
cleanup_database(db, w) == Rewritten(CleanedFrom(db, w, 1, {}), db)

\* ------------------------------------------------------------------------
\* The fetch
\* ------------------------------------------------------------------------

\* scrape_nuvama over the page's (headline, timestamp, category) triples
scrape_nuvama(page, now_ist) ==
    [k \in 1..Len(page) |->
        [headline |-> page[k].headline, timestamp |-> page[k].timestamp,
         datetime |-> parse_timestamp_to_datetime(page[k].timestamp, now_ist),
         category |-> page[k].category]]

\* scrape_stockwatch over the dashboard's links: an empty timestamp text is
\* not parsed
scrape_stockwatch(links, now_ist) ==
    [k \in 1..Len(links) |->
        [headline |-> links[k].headline, timestamp |-> links[k].timestamp,
         datetime |-> IF links[k].timestamp.kind = "empty" THEN None
                      ELSE parse_timestamp_to_datetime(links[k].timestamp, now_ist),
         category |-> "", source |-> "STOCKWATCH", company |-> links[k].company]]

\* the sort key of get_all_headlines
SortKey(h) == IF h.datetime # None THEN h.datetime[1] ELSE 0 - MinutesPerYear * 2026

\* the combined list left as the sources delivered it
SortNot(hs) == hs

\* list.sort(key, reverse=True): descending and stable
RECURSIVE SortDescending(_)
SortDescending(hs) ==
    IF hs = << >> THEN << >>
    ELSE LET front == SortDescending(SubSeq(hs, 1, Len(hs) - 1))
             last == hs[Len(hs)]
             before == Cardinality({ k \in 1..Len(front) : SortKey(front[k]) >= SortKey(last) })
         IN SubSeq(front, 1, before) \o <<last>> \o SubSeq(front, before + 1, Len(front))

ENABLE_STOCKWATCH == TRUE

get_all_headlines(nuvama_raw, stockwatch_raw) ==
    LET nuvama == [k \in 1..Len(nuvama_raw) |->
                      [headline |-> nuvama_raw[k].headline,
                       timestamp |-> nuvama_raw[k].timestamp,
                       datetime |-> nuvama_raw[k].datetime,
                       category |-> nuvama_raw[k].category,
                       source |-> "NUVAMA", company |-> ""]]
    IN SortDescending(nuvama \o (IF ENABLE_STOCKWATCH THEN stockwatch_raw ELSE << >>))

\* ------------------------------------------------------------------------
\* The monitor: main.py from its first line to the loop that never ends
\* ------------------------------------------------------------------------

\* the longest the clock runs, in minutes
MaxClock == 2

\* the number of fetches (one per startup pass, one per cycle)
MaxFetches == 3

\* the number of records the two sites show over all fetches
MaxRecords == 2

CHECK_INTERVAL_SECONDS == 60

\* the records the Nuvama page may show, with the timestamps it shows
NuvamaFeed ==
    { [headline |-> it.headline, timestamp |-> ts, category |-> it.category] :
        it \in NuvamaItems,
        ts \in { Timestamp("just_now", 0), Timestamp("mins_ago", 1), Timestamp("bad_absolute", 0) } }

\* the links the Stockwatch dashboard may show, with their timestamps
StockwatchFeed ==
    { [headline |-> it.headline, timestamp |-> ts, company |-> it.company] :
        it \in StockwatchItems, ts \in { Timestamp("stockwatch", 1), Timestamp("empty", 0) } }

\* the pages of at most n entries
Pages(feed, n) == UNION { [1..k -> feed] : k \in 0..n }

Fingerprints == { Fingerprint[h] : h \in Headlines }

VARIABLES
    history_file,         \* HISTORY_FILE: the persisted fingerprints
    context_memory_file,  \* CONTEXT_MEMORY_FILE: the persisted memory window
    last_check_file,      \* LAST_CHECK_FILE: the persisted last check, None when absent
    headlines_db_file,    \* HEADLINES_DB_FILE: the archive, newest first
    csv_files,            \* the installation's reference lists
    exclude_results,      \* EXCLUDE_RESULTS_ALERTS
    pc,                   \* where the process is
    seen_ids,             \* seen_ids of the cycle, initial_seen of the startup pass
    context_memory,       \* context_memory, initial_context_memory
    last_check,           \* last_check as the pass loaded it
    headlines,            \* headlines, initial_headlines: the fetched list
    idx,                  \* the position of the for loop in it
    clock,                \* datetime.now(IST), in minutes
    fetches,              \* the fetches made so far
    fetched,              \* the records fetched so far
    alerts,               \* per fingerprint, the headline alerts handed to send_telegram
    ev,                   \* what the last step of a pass did with its record
    call,                 \* the call a function is applied to on its own
    ret,                  \* its result
    unfiltered            \* the archive, the persisted fingerprints and the seen set
                          \* of the run that has EXCLUDE_RESULTS_ALERTS off and is
                          \* otherwise this one: same fetches, clock and interruptions

files == <<history_file, context_memory_file, last_check_file, headlines_db_file>>

config == <<csv_files, exclude_results>>

locals == <<seen_ids, context_memory, last_check, headlines, idx>>

vars == <<files, config, pc, locals, clock, fetches, fetched, alerts, ev, call, ret,
          unfiltered>>

NoEvent == [op |-> "none"]

\* a process that is not inside a pass holds no locals
NoLocals ==
    /\ seen_ids' = {}
    /\ context_memory' = << >>
    /\ last_check' = None
    /\ headlines' = << >>
    /\ idx' = 0

Init ==
    /\ history_file = {}
    /\ context_memory_file = << >>
    /\ last_check_file = None
    /\ headlines_db_file = << >>
    /\ csv_files \in DOMAIN CsvFiles
    /\ exclude_results \in BOOLEAN
    /\ pc = "down"
    /\ seen_ids = {}
    /\ context_memory = << >>
    /\ last_check = None
    /\ headlines = << >>
    /\ idx = 0
    /\ clock = 0
    /\ fetches = 0
    /\ fetched = 0
    /\ alerts = [f \in Fingerprints |-> 0]
    /\ ev = NoEvent
    /\ call = << >>
    /\ ret = << >>
    /\ unfiltered = [headlines_db_file |-> << >>, history_file |-> {}, seen_ids |-> {}]

\* the entity filter left out of the pass
EntityFilterPassesAll(h, w) == TRUE

\* the Nifty 500 filter of both passes: it tests Stockwatch records only, and
\* only when the loaded set is not empty
EntityFilterPasses(h, w) ==
    ~(h.source = "STOCKWATCH" /\ DOMAIN Watchlist[w] # {} /\ ~Matches[w, h.company])

\* Layer A that takes every record for new
IsNewAlways(h_id, seen) == TRUE

\* Layer A of both passes
IsNew(h_id, seen) == h_id \notin seen

\* the timestamp filter with < for <=
ShouldSendAlertStrict(lc, datetime_obj) ==
    ~(lc # None /\ datetime_obj # None /\ datetime_obj[1] < lc[1])

\* the timestamp filter of check_and_notify: should_send_alert
ShouldSendAlert(lc, datetime_obj) ==
    ~(lc # None /\ datetime_obj # None /\ datetime_obj[1] <= lc[1])

\* the startup rule with >= for >
ShouldAlertInclusive(lc, datetime_obj) ==
    lc # None /\ datetime_obj # None /\ datetime_obj[1] >= lc[1]

\* the timestamp rule of the startup pass: should_alert
ShouldAlert(lc, datetime_obj) ==
    lc # None /\ datetime_obj # None /\ datetime_obj[1] > lc[1]

\* what save_last_check_timestamp writes: the time on the clock
save_last_check_timestamp(now_ist) == <<now_ist>>

\* the fetch of a pass: both sites are scraped at the time on the clock
Fetch(page, links) ==
    get_all_headlines(scrape_nuvama(page, clock), scrape_stockwatch(links, clock))

\* the archive written only for a record the category filter lets through
SavedUnlessResult(passes, is_result) == passes /\ ~is_result

\* lines 1159-1160 and 1256-1258: a record that passed Layer A and the entity
\* filter is saved to the archive before the category filter is looked at
SavedToDb(passes, is_result) == passes

\* the memory window appended to whatever send_telegram returned
DeliveredAlways(sent, ok) == sent

\* lines 1179 and 1275: send_telegram was called and returned True
Delivered(sent, ok) == sent /\ ok

\* Lines 1204-1231: the process starts. The watchlist is loaded and cached,
\* the archive cleaned, the last check read, the startup message sent, the
\* sites fetched and the stores read. ERROR_LOG_FILE, which log_error appends
\* to and nothing reads, is not part of the state: a failed delivery of the
\* startup message changes nothing else.
Boot ==
    /\ pc = "down"
    /\ fetches < MaxFetches
    /\ \E page \in Pages(NuvamaFeed, MaxRecords - fetched) :
       \E links \in Pages(StockwatchFeed, MaxRecords - fetched - Len(page)) :
          /\ headlines' = Fetch(page, links)
          /\ fetched' = fetched + Len(page) + Len(links)
    /\ headlines_db_file' = cleanup_database(headlines_db_file, csv_files)
    /\ last_check' = last_check_file
    /\ seen_ids' = history_file
    /\ context_memory' = context_memory_file
    /\ idx' = 1
    /\ fetches' = fetches + 1
    /\ pc' = "startup"
    /\ ev' = NoEvent
    /\ unfiltered' = [unfiltered EXCEPT
                         !.headlines_db_file = cleanup_database(@, csv_files),
                         !.seen_ids = unfiltered.history_file]
    /\ UNCHANGED <<history_file, context_memory_file, last_check_file, config, clock,
                   alerts, call, ret>>

\* Lines 1233-1282: one record of the startup pass
StartupStep ==
    /\ pc = "startup"
    /\ idx <= Len(headlines)
    /\ \E ok \in BOOLEAN, h \in {headlines[idx]} :
       \E h_id \in {Fingerprint[h.headline]},
          passes \in {EntityFilterPasses(h, csv_files)},
          is_result \in {exclude_results /\ IsResults[h.headline, h.category]},
          dup \in {is_context_duplicate(h.headline, context_memory, h.source, csv_files)} :
       LET is_new == IsNew(h_id, seen_ids)
           archived == passes /\ is_new
           should_alert == archived /\ ShouldAlert(last_check, h.datetime)
           sent == should_alert /\ ~is_result /\ ~dup.is_dup
       IN /\ seen_ids' = seen_ids \cup {h_id}
          /\ headlines_db_file' =
                IF SavedToDb(archived, is_result)
                THEN save_headline_to_db(headlines_db_file, h.headline, h.timestamp,
                                         h.source, h.company, clock)
                ELSE headlines_db_file
          /\ unfiltered' =
                [unfiltered EXCEPT
                    !.seen_ids = @ \cup {h_id},
                    !.headlines_db_file =
                        IF SavedToDb(passes /\ IsNew(h_id, unfiltered.seen_ids), FALSE)
                        THEN save_headline_to_db(@, h.headline, h.timestamp,
                                                 h.source, h.company, clock)
                        ELSE @]
          /\ alerts' = IF sent THEN [alerts EXCEPT ![h_id] = @ + 1] ELSE alerts
          /\ context_memory' =
                IF Delivered(sent, ok)
                THEN add_to_context_memory(context_memory, h.headline, h.source,
                                           h.company, clock)
                ELSE context_memory
          /\ ev' = [op |-> "startup", h |-> h, h_id |-> h_id, is_new |-> is_new,
                    passes |-> passes, last_check |-> last_check,
                    archived |-> headlines_db_file' # headlines_db_file,
                    filtered |-> should_alert /\ (is_result \/ dup.is_dup),
                    sent |-> sent, delivered |-> sent /\ ok]
    /\ idx' = idx + 1
    /\ UNCHANGED <<history_file, context_memory_file, last_check_file, config, pc,
                   last_check, headlines, clock, fetches, fetched, call, ret>>

\* Lines 1284-1287: the startup pass persists and the loop begins
StartupFinish ==
    /\ pc = "startup"
    /\ idx > Len(headlines)
    /\ history_file' = seen_ids
    /\ context_memory_file' = save_context_memory(context_memory, clock)
    /\ last_check_file' = save_last_check_timestamp(clock)
    /\ pc' = "loop"
    /\ NoLocals
    /\ ev' = NoEvent
    /\ unfiltered' = [unfiltered EXCEPT !.history_file = unfiltered.seen_ids, !.seen_ids = {}]
    /\ UNCHANGED <<headlines_db_file, config, clock, fetches, fetched,
                   alerts, call, ret>>

\* Lines 1114-1128: check_and_notify reads the stores and fetches; with no
\* headline from any source it returns at once and the loop sleeps
CycleBegin ==
    /\ pc = "loop"
    /\ fetches < MaxFetches
    /\ \E page \in Pages(NuvamaFeed, MaxRecords - fetched) :
       \E links \in Pages(StockwatchFeed, MaxRecords - fetched - Len(page)) :
          /\ headlines' = Fetch(page, links)
          /\ fetched' = fetched + Len(page) + Len(links)
    /\ fetches' = fetches + 1
    /\ IF headlines' = << >>
       THEN /\ pc' = "sleep"
            /\ seen_ids' = {}
            /\ context_memory' = << >>
            /\ last_check' = None
            /\ idx' = 0
       ELSE /\ pc' = "cycle"
            /\ seen_ids' = history_file
            /\ context_memory' = context_memory_file
            /\ last_check' = last_check_file
            /\ idx' = 1
    /\ ev' = NoEvent
    /\ unfiltered' = [unfiltered EXCEPT
                         !.seen_ids = IF headlines' = << >> THEN {} ELSE unfiltered.history_file]
    /\ UNCHANGED <<files, config, clock, alerts, call, ret>>

\* the memory window as the cycle loaded it, whatever the pass has appended
WindowAsLoaded(memory, loaded) == loaded

\* line 1170: Layer B reads the memory window the pass holds, deliveries of
\* the pass included
WindowOfPass(memory, loaded) == memory

\* Lines 1130-1182: one record of a cycle
CycleStep ==
    /\ pc = "cycle"
    /\ idx <= Len(headlines)
    /\ \E ok \in BOOLEAN, h \in {headlines[idx]} :
       \E h_id \in {Fingerprint[h.headline]},
          matches \in {EntityFilterPasses(h, csv_files)},
          is_result \in {exclude_results /\ IsResults[h.headline, h.category]},
          dup \in {is_context_duplicate(h.headline,
                                        WindowOfPass(context_memory, context_memory_file),
                                        h.source, csv_files)} :
       LET is_new == IsNew(h_id, seen_ids)
           passes == is_new /\ matches
           should_send_alert == ShouldSendAlert(last_check, h.datetime)
           sent == passes /\ should_send_alert /\ ~is_result /\ ~dup.is_dup
       IN /\ seen_ids' = seen_ids \cup {h_id}
          /\ headlines_db_file' =
                IF SavedToDb(passes, is_result)
                THEN save_headline_to_db(headlines_db_file, h.headline, h.timestamp,
                                         h.source, h.company, clock)
                ELSE headlines_db_file
          /\ unfiltered' =
                [unfiltered EXCEPT
                    !.seen_ids = @ \cup {h_id},
                    !.headlines_db_file =
                        IF SavedToDb(matches /\ IsNew(h_id, unfiltered.seen_ids), FALSE)
                        THEN save_headline_to_db(@, h.headline, h.timestamp,
                                                 h.source, h.company, clock)
                        ELSE @]
          /\ alerts' = IF sent THEN [alerts EXCEPT ![h_id] = @ + 1] ELSE alerts
          /\ context_memory' =
                IF Delivered(sent, ok)
                THEN add_to_context_memory(context_memory, h.headline, h.source,
                                           h.company, clock)
                ELSE context_memory
          /\ ev' = [op |-> "cycle", h |-> h, h_id |-> h_id, is_new |-> is_new,
                    passes |-> passes, last_check |-> last_check,
                    archived |-> headlines_db_file' # headlines_db_file,
                    filtered |-> passes /\ should_send_alert /\ (is_result \/ dup.is_dup),
                    sent |-> sent, delivered |-> sent /\ ok]
    /\ idx' = idx + 1
    /\ UNCHANGED <<history_file, context_memory_file, last_check_file, config, pc,
                   last_check, headlines, clock, fetches, fetched, call, ret>>

\* the end of a cycle without save_seen
CycleFinishWithoutSeen ==
    /\ pc = "cycle"
    /\ idx > Len(headlines)
    /\ context_memory_file' = save_context_memory(context_memory, clock)
    /\ last_check_file' = save_last_check_timestamp(clock)
    /\ pc' = "sleep"
    /\ NoLocals
    /\ ev' = [op |-> "persisted"]
    /\ unfiltered' = [unfiltered EXCEPT !.seen_ids = {}]
    /\ UNCHANGED <<history_file, headlines_db_file, config, clock, fetches, fetched,
                   alerts, call, ret>>

\* Lines 1184-1187 and 1296-1297: the cycle persists and the loop sleeps
CycleFinish ==
    /\ pc = "cycle"
    /\ idx > Len(headlines)
    /\ history_file' = seen_ids
    /\ context_memory_file' = save_context_memory(context_memory, clock)
    /\ last_check_file' = save_last_check_timestamp(clock)
    /\ pc' = "sleep"
    /\ NoLocals
    /\ ev' = [op |-> "persisted"]
    /\ unfiltered' = [unfiltered EXCEPT !.history_file = unfiltered.seen_ids, !.seen_ids = {}]
    /\ UNCHANGED <<headlines_db_file, config, clock, fetches, fetched,
                   alerts, call, ret>>

\* Line 1297: time.sleep(CHECK_INTERVAL_SECONDS) returns
Wake ==
    /\ pc = "sleep"
    /\ clock + CHECK_INTERVAL_SECONDS \div 60 <= MaxClock
    /\ clock' = clock + CHECK_INTERVAL_SECONDS \div 60
    /\ pc' = "loop"
    /\ ev' = NoEvent
    /\ UNCHANGED <<files, config, locals, fetches, fetched, alerts, call, ret, unfiltered>>

\* the handler of a cycle-level error saving the last check as the
\* interrupt handler does
CycleErrorSavingLastCheck ==
    /\ pc = "cycle"
    /\ last_check_file' = save_last_check_timestamp(clock)
    /\ pc' = "backoff"
    /\ NoLocals
    /\ ev' = [op |-> "error"]
    /\ unfiltered' = [unfiltered EXCEPT !.seen_ids = {}]
    /\ UNCHANGED <<history_file, context_memory_file, headlines_db_file,
                   config, clock, fetches, fetched, alerts, call, ret>>

\* the handler of a cycle-level error ending the process
CycleErrorFatal ==
    /\ pc = "cycle"
    /\ pc' = "down"
    /\ NoLocals
    /\ ev' = [op |-> "error"]
    /\ unfiltered' = [unfiltered EXCEPT !.seen_ids = {}]
    /\ UNCHANGED <<history_file, context_memory_file, last_check_file, headlines_db_file,
                   config, clock, fetches, fetched, alerts, call, ret>>

\* Lines 1302-1306: a call of the cycle raises; the loop logs the error and
\* will retry
CycleError ==
    /\ pc = "cycle"
    /\ pc' = "backoff"
    /\ NoLocals
    /\ ev' = [op |-> "error"]
    /\ unfiltered' = [unfiltered EXCEPT !.seen_ids = {}]
    /\ UNCHANGED <<history_file, context_memory_file, last_check_file, headlines_db_file,
                   config, clock, fetches, fetched, alerts, call, ret>>

\* Line 1306: time.sleep(60) returns
WakeBackoff ==
    /\ pc = "backoff"
    /\ clock + 1 <= MaxClock
    /\ clock' = clock + 1
    /\ pc' = "loop"
    /\ UNCHANGED <<files, config, locals, fetches, fetched, alerts, ev, call, ret, unfiltered>>

\* the process is killed, or the machine stops: nothing is written
Kill ==
    /\ pc # "down"
    /\ pc' = "down"
    /\ NoLocals
    /\ ev' = NoEvent
    /\ unfiltered' = [unfiltered EXCEPT !.seen_ids = {}]
    /\ UNCHANGED <<files, config, clock, fetches, fetched, alerts, call, ret>>

\* Lines 1298-1301: KeyboardInterrupt inside the try of the loop, in the
\* cycle or in its sleep: the last check is saved and the loop ends
Interrupt ==
    /\ pc \in {"loop", "cycle", "sleep"}
    /\ last_check_file' = save_last_check_timestamp(clock)
    /\ pc' = "down"
    /\ NoLocals
    /\ ev' = [op |-> "interrupted"]
    /\ unfiltered' = [unfiltered EXCEPT !.seen_ids = {}]
    /\ UNCHANGED <<history_file, context_memory_file, headlines_db_file,
                   config, clock, fetches, fetched, alerts, call, ret>>

\* KeyboardInterrupt outside the try of the loop: in the startup pass (lines
\* 1226-1287) and in the sleep of the error handler (line 1306) no handler
\* is in reach, and the process ends with the traceback
InterruptUncaught ==
    /\ pc \in {"startup", "backoff"}
    /\ pc' = "down"
    /\ NoLocals
    /\ ev' = [op |-> "uncaught"]
    /\ unfiltered' = [unfiltered EXCEPT !.seen_ids = {}]
    /\ UNCHANGED <<files, config, clock, fetches, fetched, alerts, call, ret>>

\* a minute passes while the process is down or at work
Tick ==
    /\ pc \in {"down", "loop"}
    /\ clock < MaxClock
    /\ clock' = clock + 1
    /\ UNCHANGED <<files, config, pc, locals, fetches, fetched, alerts, ev, call, ret, unfiltered>>

Next ==
    \/ Boot
    \/ StartupStep
    \/ StartupFinish
    \/ CycleBegin
    \/ CycleStep
    \/ CycleFinish
    \/ Wake
    \/ CycleError
    \/ WakeBackoff
    \/ Kill
    \/ Interrupt
    \/ InterruptUncaught
    \/ Tick

Spec == Init /\ [][Next]_vars

\* The loop keeps running: time.sleep(60) of the error handler returns (line
\* 1306) and the next iteration calls check_and_notify (line 1295).
SpecLive == Spec /\ WF_vars(WakeBackoff) /\ WF_vars(CycleBegin)

\* ------------------------------------------------------------------------
\* The functions applied on their own
\* ------------------------------------------------------------------------

\* the longest memory window a call is given
MaxMemory == 2

\* the reference lists a call may find on disk: the primary list, no file, a
\* file without rows, the primary list with a second row whose read raises,
\* and a one-row list
ReferenceLists ==
    "nifty" :> NiftyCsv
    @@ "missing" :> MissingCsv
    @@ "empty" :> [exists |-> TRUE, rows |-> << >>, failAfter |-> 1]
    @@ "broken" :> [NiftyCsv EXCEPT !.failAfter = 1]
    @@ "short" :> [exists |-> TRUE,
                   rows |-> << [Symbol |-> Chars["TCS"], Name |-> << >>, Aliases |-> << >>] >>,
                   failAfter |-> 2]

\* calls of is_context_duplicate with the memory entries a call may be given
DuplicateCalls ==
    { [op |-> "is_context_duplicate", headline_text |-> h, source |-> src, memory |-> m] :
        h \in Headlines, src \in {"NUVAMA", "STOCKWATCH"},
        m \in UNION { [1..k -> { [headline |-> e, timestamp |-> 0, source |-> s, company |-> ""] :
                                    e \in Headlines, s \in {"NUVAMA", "STOCKWATCH"} }] : k \in 0..MaxMemory } }

MatchCalls ==
    { [op |-> "is_nifty500_match", primary |-> p, additional |-> a, configured |-> c,
       company_name |-> n] :
        p \in DOMAIN ReferenceLists, a \in DOMAIN ReferenceLists, c \in BOOLEAN,
        n \in Companies \cup {"TCS"} }

\* calls of contextual_similarity_score on the headlines and two short texts
\* with no character in common, one of them a number; the embedding signal is
\* absent (lines 947-953) or the cosine of the two embeddings, a number from
\* -1 to 1 (lines 1085-1095)
ScoreCalls ==
    { [op |-> "contextual_similarity_score", headline_a |-> a, headline_b |-> b,
       embedding |-> e] :
        a \in Headlines \cup {"TCS", "500"}, b \in Headlines \cup {"TCS", "500"},
        e \in { << >> } \cup { <<cos_sim>> :
                   cos_sim \in { <<0 - 1, 1>>, <<0 - 1, 5>>, <<0, 1>>, <<1, 2>>, <<1, 1>> } } }

\* calls of the two canonical forms on the headlines, on headlines with a
\* price move in parentheses (signed with "-", "+" or the minus sign U+2212,
\* with and without decimals), and on one with a doubled dash before a colon
CanonCalls ==
    { [op |-> o, text |-> t] :
        o \in {"normalize_headline_for_exact_dedup", "canonicalize_for_context"},
        t \in Headlines \cup
              { "ABC wins order (-1.2%)", "ABC wins order (+3.4%)",
                "ABC wins order (U+2212 1.2%)", "ABC wins order (+3%)",
                "ABC wins another order", "ABC wins order -- : details",
                "Natco Pharma Ltd.", "" } }

\* calls of parse_timestamp_to_datetime in the first minutes of 2026, on
\* 15 January 2028 and on 29 February 2028 at 09:00; 2026 and 2027 have 365
\* days, so these times are exact in minutes from the start of 2026
ParseCalls ==
    { [op |-> "parse_timestamp_to_datetime", publish_timestamp |-> Timestamp(k, n),
       now_ist |-> t] :
        k \in {"just_now", "mins_ago", "hours_ago", "absolute", "leap_day", "stockwatch",
               "bad_absolute", "empty", "long_text"},
        n \in {0, 1, 15, 8 * 60 + 26},
        t \in {0, 1, 2, 2 * MinutesPerYear + 14 * MinutesPerDay + 9 * 60,
               2 * MinutesPerYear + 59 * MinutesPerDay + 9 * 60} }

\* ------------------------------------------------------------------------
\* The state files as a process may find them
\* ------------------------------------------------------------------------

\* A state file: no file at the path, a file open() or read() raises for, a
\* file that is not JSON, or a JSON document. What json.load returns is a
\* record of one field, named after the Python type and holding the value;
\* "iso" is the str datetime.isoformat wrote for the time it holds. The last
\* list holds as many entries as the error log keeps.
StoreFiles ==
    { [kind |-> k, data |-> [null |-> 0]] : k \in {"missing", "unreadable", "not_json"} }
    \cup { [kind |-> "json", data |-> d] :
             d \in { [null |-> 0], [num |-> 0], [num |-> 5], [str |-> ""], [str |-> "abc"],
                     [iso |-> 1],
                     [list |-> << >>],
                     [list |-> << [str |-> "abc"] >>],
                     [list |-> << [str |-> "abc"], [list |-> << >>] >>],
                     [list |-> [n \in 1..ERROR_LOG_LIMIT |-> [str |-> "abc"]]],
                     [dict |-> EmptyDict],
                     [dict |-> DictPut(EmptyDict, "other", [iso |-> 1])] }
                   \cup { [dict |-> DictPut(EmptyDict, "last_check", x)] :
                            x \in { [null |-> 0], [num |-> 5], [str |-> ""],
                                    [str |-> "abc"], [iso |-> 1], [list |-> << >>] } } }

\* isinstance(x, type)
isinstance(x, type) == type \in DOMAIN x

\* bool(x)
Truthy(x) ==
    CASE isinstance(x, "null") -> FALSE
      [] isinstance(x, "num") -> x.num # 0
      [] isinstance(x, "str") -> x.str # ""
      [] isinstance(x, "list") -> x.list # << >>
      [] isinstance(x, "dict") -> DOMAIN x.dict # {}
      [] OTHER -> TRUE

\* load_seen: set(data) raises for a list or dict among the elements, and the
\* bare except returns the empty set
load_seen(file) ==
    IF file.kind = "json" /\ isinstance(file.data, "list")
       /\ \A k \in 1..Len(file.data.list) :
             ~isinstance(file.data.list[k], "list") /\ ~isinstance(file.data.list[k], "dict")
    THEN { file.data.list[k] : k \in 1..Len(file.data.list) }
    ELSE {}

\* load_last_check_timestamp: data.get raises unless data is a dict, and
\* datetime.fromisoformat raises unless it is given an ISO text
load_last_check_timestamp(file) ==
    IF file.kind = "json" /\ isinstance(file.data, "dict")
       /\ "last_check" \in DOMAIN file.data.dict
       /\ Truthy(file.data.dict["last_check"])
       /\ isinstance(file.data.dict["last_check"], "iso")
    THEN <<file.data.dict["last_check"].iso>>
    ELSE None

\* load_context_memory: a list is returned as it is
load_context_memory(file) ==
    IF file.kind = "json" /\ isinstance(file.data, "list") THEN file.data.list ELSE << >>

\* log_error: errors is what lines 67-71 load, file what is on disk after the
\* call. errors.append raises unless errors is a list, open(..., 'w') raises
\* when the file cannot be written, and the handler of line 86 prints.
log_error(file, writable, error_entry) ==
    LET errors == IF file.kind = "json" THEN file.data ELSE [list |-> << >>]
        appended == Append(errors.list, error_entry)
    IN [errors |-> errors,
        file |-> IF isinstance(errors, "list") /\ writable
                 THEN [kind |-> "json",
                       data |-> [list |-> SubSeq(appended,
                                                 Len(appended) - Min(Len(appended), ERROR_LOG_LIMIT) + 1,
                                                 Len(appended))]]
                 ELSE file]

LoadCalls ==
    { [op |-> o, file |-> f] :
        o \in {"load_seen", "load_last_check_timestamp", "load_context_memory"},
        f \in StoreFiles }
    \cup { [op |-> "log_error", file |-> f, writable |-> w] : f \in StoreFiles, w \in BOOLEAN }

\* the entries a window may hold beyond the limit of the store
MaxOver == 2

\* save_context_memory of the memory window after n deliveries, one every step
\* minutes from minute 0, as add_to_context_memory built it, a while after the
\* last delivery: at once, when the first entry turns 24 hours old, a minute
\* before and at the moment the last one does
SaveCalls ==
    { [op |-> "save_context_memory",
       memory |-> [k \in 1..n |->
                    [headline |-> "Natco Pharma gets EIR from USFDA",
                     timestamp |-> (k - 1) * step,
                     source |-> "STOCKWATCH", company |-> "Natco Pharma Limited"]],
       now_ist |-> (n - 1) * step + delay] :
        n \in {1, 2} \cup ((MEMORY_LIMIT - 1)..(MEMORY_LIMIT + MaxOver)),
        step \in {1, 10},
        delay \in {0, MEMORY_HOURS * 60 - MEMORY_LIMIT - 1,
                   MEMORY_HOURS * 60 - 1, MEMORY_HOURS * 60} }

\* the appends one call sequence makes
MaxAppends == 2

\* The records a pass archives one after the other, the first a minute after
\* the last append of the archive it finds: the archive after n appends, one a
\* minute from minute 0, of Nuvama headlines shown as "Just Now", the newest
\* first.
ArchiveCalls ==
    { [op |-> "save_headline_to_db",
       db |-> [i \in 1..n |->
                [headline |-> "Reliance bags order in India",
                 timestamp |-> FormatTimestamp(n - i), date |-> FormatDate(n - i),
                 source |-> "NUVAMA", company |-> ""]],
       records |-> r] :
        n \in {0, 1} \cup ((ARCHIVE_LIMIT - MaxAppends)..ARCHIVE_LIMIT),
        r \in UNION { [1..k ->
                        { [headline |-> "Natco Pharma gets EIR from USFDA",
                           timestamp |-> Timestamp("empty", 0),
                           source |-> "STOCKWATCH", company |-> "Natco Pharma Limited"],
                          [headline |-> "Natco Pharma receives approval",
                           timestamp |-> Timestamp("just_now", 0),
                           source |-> "NUVAMA", company |-> ""],
                          [headline |-> "Reliance bags order in India",
                           timestamp |-> Timestamp("just_now", 0),
                           source |-> "NUVAMA", company |-> ""] }] : k \in 1..MaxAppends } }

\* what the two sites show when get_all_headlines is called
FetchCalls ==
    { [op |-> "get_all_headlines", page |-> page, links |-> links] :
        page \in Pages(NuvamaFeed, MaxRecords), links \in Pages(StockwatchFeed, MaxRecords) }

InitCalls ==
    /\ history_file = {}
    /\ context_memory_file = << >>
    /\ last_check_file = None
    /\ headlines_db_file = << >>
    /\ csv_files \in DOMAIN CsvFiles
    /\ exclude_results = FALSE
    /\ pc = "down"
    /\ seen_ids = {}
    /\ context_memory = << >>
    /\ last_check = None
    /\ headlines = << >>
    /\ idx = 0
    /\ clock = 0
    /\ fetches = 0
    /\ fetched = 0
    /\ alerts = [f \in Fingerprints |-> 0]
    /\ ev = NoEvent
    /\ call \in DuplicateCalls \cup MatchCalls \cup LoadCalls \cup SaveCalls
                \cup ArchiveCalls \cup FetchCalls \cup ScoreCalls \cup CanonCalls
                \cup ParseCalls
    /\ ret = << >>
    /\ unfiltered = [headlines_db_file |-> << >>, history_file |-> {}, seen_ids |-> {}]

\* the set _nifty500_companies a process holds after load_nifty500_companies
\* read the call's lists
LoadedCompanies(c) ==
    DOMAIN LoadWatchlist(ReferenceLists[c.primary], ReferenceLists[c.additional], c.configured)

ApplyDuplicate ==
    /\ call.op = "is_context_duplicate"
    /\ ret = << >>
    /\ ret' = <<is_context_duplicate(call.headline_text, call.memory, call.source, csv_files)>>
    /\ UNCHANGED <<files, config, pc, locals, clock, fetches, fetched, alerts, ev, call, unfiltered>>

ApplyMatch ==
    /\ call.op = "is_nifty500_match"
    /\ ret = << >>
    /\ ret' = <<is_nifty500_match(LoadedCompanies(call), Chars[call.company_name])>>
    /\ UNCHANGED <<files, config, pc, locals, clock, fetches, fetched, alerts, ev, call, unfiltered>>

ApplyLoadSeen ==
    /\ call.op = "load_seen"
    /\ ret = << >>
    /\ ret' = <<load_seen(call.file)>>
    /\ UNCHANGED <<files, config, pc, locals, clock, fetches, fetched, alerts, ev, call, unfiltered>>

ApplyLoadLastCheck ==
    /\ call.op = "load_last_check_timestamp"
    /\ ret = << >>
    /\ ret' = <<load_last_check_timestamp(call.file)>>
    /\ UNCHANGED <<files, config, pc, locals, clock, fetches, fetched, alerts, ev, call, unfiltered>>

ApplyLoadContextMemory ==
    /\ call.op = "load_context_memory"
    /\ ret = << >>
    /\ ret' = <<load_context_memory(call.file)>>
    /\ UNCHANGED <<files, config, pc, locals, clock, fetches, fetched, alerts, ev, call, unfiltered>>

\* log_error("main_loop", ...): the entry is a dict of four keys
ApplyLogError ==
    /\ call.op = "log_error"
    /\ ret = << >>
    /\ ret' = <<log_error(call.file, call.writable,
                          [dict |-> DictPut(EmptyDict, "type", [str |-> "main_loop"])])>>
    /\ UNCHANGED <<files, config, pc, locals, clock, fetches, fetched, alerts, ev, call, unfiltered>>

\* the window save_context_memory writes
ApplySaveContextMemory ==
    /\ call.op = "save_context_memory"
    /\ ret = << >>
    /\ ret' = <<save_context_memory(call.memory, call.now_ist)>>
    /\ UNCHANGED <<files, config, pc, locals, clock, fetches, fetched, alerts, ev, call, unfiltered>>

\* the next record of the call is archived: save_headline_to_db reads the
\* archive the last call wrote
ApplySaveHeadline ==
    /\ call.op = "save_headline_to_db"
    /\ \E appended \in {IF ret = << >> THEN 0 ELSE ret[1].appended},
          db \in {IF ret = << >> THEN call.db ELSE ret[1].db} :
          /\ appended < Len(call.records)
          /\ \E h \in {call.records[appended + 1]} :
                ret' = <<[db |-> save_headline_to_db(db, h.headline, h.timestamp, h.source,
                                                     h.company, Len(call.db) + appended),
                          appended |-> appended + 1]>>
    /\ UNCHANGED <<files, config, pc, locals, clock, fetches, fetched, alerts, ev, call, unfiltered>>

\* load_headlines of the dashboard: what json.load returns, the empty list
\* when the file cannot be read or parsed
load_headlines(file) ==
    IF file.kind = "json" THEN file.data ELSE [list |-> << >>]

\* the index page is requested while the monitor appends: the list handed to
\* the template is the archive on disk, reversed
ApplyIndex ==
    /\ call.op = "save_headline_to_db"
    /\ ret # << >>
    /\ \E loaded \in {load_headlines([kind |-> "json", data |-> [list |-> ret[1].db]]).list} :
          ret' = <<[db |-> ret[1].db, appended |-> ret[1].appended, route |-> "/",
                    headlines |-> [i \in 1..Len(loaded) |-> loaded[Len(loaded) + 1 - i]]]>>
    /\ UNCHANGED <<files, config, pc, locals, clock, fetches, fetched, alerts, ev, call, unfiltered>>

\* /api/headlines is requested while the monitor appends: the list returned
\* as JSON is the archive on disk, reversed
ApplyApiHeadlines ==
    /\ call.op = "save_headline_to_db"
    /\ ret # << >>
    /\ \E loaded \in {load_headlines([kind |-> "json", data |-> [list |-> ret[1].db]]).list} :
          ret' = <<[db |-> ret[1].db, appended |-> ret[1].appended, route |-> "/api/headlines",
                    headlines |-> [i \in 1..Len(loaded) |-> loaded[Len(loaded) + 1 - i]]]>>
    /\ UNCHANGED <<files, config, pc, locals, clock, fetches, fetched, alerts, ev, call, unfiltered>>

\* the list get_all_headlines returns and the for loop of a pass goes through
ApplyGetAllHeadlines ==
    /\ call.op = "get_all_headlines"
    /\ ret = << >>
    /\ ret' = <<Fetch(call.page, call.links)>>
    /\ UNCHANGED <<files, config, pc, locals, clock, fetches, fetched, alerts, ev, call, unfiltered>>

\* one call of contextual_similarity_score; the cosine of a pair is the same
\* in either order
ApplyScore ==
    /\ call.op = "contextual_similarity_score"
    /\ ret = << >>
    /\ ret' = <<contextual_similarity_score(Chars[call.headline_a], Chars[call.headline_b],
                                             Watchlist[csv_files], call.embedding)>>
    /\ UNCHANGED <<files, config, pc, locals, clock, fetches, fetched, alerts, ev, call, unfiltered>>

ApplyNormalize ==
    /\ call.op = "normalize_headline_for_exact_dedup"
    /\ ret = << >>
    /\ ret' = <<normalize_headline_for_exact_dedup(Chars[call.text])>>
    /\ UNCHANGED <<files, config, pc, locals, clock, fetches, fetched, alerts, ev, call, unfiltered>>

ApplyCanonicalize ==
    /\ call.op = "canonicalize_for_context"
    /\ ret = << >>
    /\ ret' = <<canonicalize_for_context(Chars[call.text])>>
    /\ UNCHANGED <<files, config, pc, locals, clock, fetches, fetched, alerts, ev, call, unfiltered>>

ApplyParse ==
    /\ call.op = "parse_timestamp_to_datetime"
    /\ ret = << >>
    /\ ret' = <<parse_timestamp_to_datetime(call.publish_timestamp, call.now_ist)>>
    /\ UNCHANGED <<files, config, pc, locals, clock, fetches, fetched, alerts, ev, call, unfiltered>>

NextCalls ==
    \/ ApplyDuplicate
    \/ ApplyMatch
    \/ ApplyLoadSeen
    \/ ApplyLoadLastCheck
    \/ ApplyLoadContextMemory
    \/ ApplyLogError
    \/ ApplySaveContextMemory
    \/ ApplySaveHeadline
    \/ ApplyIndex
    \/ ApplyApiHeadlines
    \/ ApplyGetAllHeadlines
    \/ ApplyScore
    \/ ApplyNormalize
    \/ ApplyCanonicalize
    \/ ApplyParse

SpecCalls == InitCalls /\ [][NextCalls]_vars

\* ------------------------------------------------------------------------
\* The claims
\* ------------------------------------------------------------------------

\* the record a pass is about to process has its entry at the head of the
\* archive after the step
Archived(h) ==
    /\ Len(headlines_db_file') = Len(headlines_db_file) + 1
    /\ headlines_db_file'[1].headline = h.headline
    /\ headlines_db_file'[1].source = h.source

\* the step handed a headline alert to send_telegram
Alerted == alerts' # alerts

\* the category filter or Layer B removes the record from alerting
Removed(h) ==
    \/ exclude_results /\ IsResults[h.headline, h.category]
    \/ is_context_duplicate(h.headline, context_memory, h.source, csv_files).is_dup

\* whether the normalized company name, and its form without spaces, equal no
\* alias of the installation's watchlist
EqualsNoAlias ==
    [w \in DOMAIN CsvFiles, c \in Companies |->
        LET normalized == _normalize_company(Chars[c])
        IN /\ normalized \notin DOMAIN Watchlist[w]
           /\ ReplaceChar(normalized, " ", << >>) \notin DOMAIN Watchlist[w]]

\* C1: over startup passes, cycles, cycle errors and restarts (kills
\* included), no fingerprint is handed to the notifier more than once.
C1_AtMostOncePerFingerprint == \A f \in Fingerprints : alerts[f] <= 1

\* C2: a step of a cycle puts the record's fingerprint into seen_ids at once
\* and never takes one out; a record whose fingerprint is already in seen_ids,
\* or that follows a record of the same fingerprint in the fetched list, is
\* neither archived nor alerted nor added to the memory window.
C2_LayerAImmediate ==
    [][(pc = "cycle" /\ idx' = idx + 1) =>
        LET h_id == Fingerprint[headlines[idx].headline]
            earlier == \E j \in 1..(idx - 1) : Fingerprint[headlines[j].headline] = h_id
        IN /\ h_id \in seen_ids'
           /\ seen_ids \subseteq seen_ids'
           /\ (h_id \in seen_ids \/ earlier) =>
                 /\ headlines_db_file' = headlines_db_file
                 /\ alerts' = alerts
                 /\ context_memory' = context_memory]_vars

\* C2 happens: a cycle has just skipped the second of two fetched records
\* with one fingerprint.
C2_Witness ==
    /\ ev.op = "cycle"
    /\ ~ev.is_new
    /\ \E j \in 1..(idx - 2) :
          /\ Fingerprint[headlines[j].headline] = ev.h_id
          /\ headlines[j].headline # ev.h.headline

\* C3: in the startup pass a record that is new and passes the entity filter
\* is archived, and it is alerted exactly when the persisted last check
\* exists, the record's parsed time is strictly after it and neither the
\* category filter nor Layer B removes it.
C3_StartupAlertRule ==
    [][(pc = "startup" /\ idx' = idx + 1) =>
        LET h == headlines[idx]
            new == Fingerprint[h.headline] \notin seen_ids
            after == /\ last_check_file # None
                     /\ h.datetime # None
                     /\ h.datetime[1] > last_check_file[1]
        IN (new /\ EntityFilterPasses(h, csv_files)) =>
              /\ Archived(h)
              /\ Alerted <=> (after /\ ~Removed(h))]_vars

\* C3 happens: the startup pass has just alerted a new record published
\* after the persisted last check.
C3_Witness ==
    /\ ev.op = "startup"
    /\ ev.is_new
    /\ ev.sent
    /\ ev.last_check # None
    /\ ev.h.datetime[1] > ev.last_check[1]

\* C4: in a cycle a record that passed Layer A and the entity filter is
\* archived, and it is alerted exactly when it is not the case that the last
\* check exists and the record has a parsed time at or before it, and neither
\* the category filter nor Layer B removes it; a record without parsed time is
\* never held back by the recency filter.
C4_RecencyFilter ==
    [][(pc = "cycle" /\ idx' = idx + 1) =>
        LET h == headlines[idx]
            new == Fingerprint[h.headline] \notin seen_ids
            not_after == /\ last_check_file # None
                         /\ h.datetime # None
                         /\ h.datetime[1] <= last_check_file[1]
        IN (new /\ EntityFilterPasses(h, csv_files)) =>
              /\ Archived(h)
              /\ Alerted <=> (~not_after /\ ~Removed(h))]_vars

\* C4 happens: a cycle has just archived, without alerting it, a new record
\* whose parsed time is not after the last check.
C4_Witness ==
    /\ ev.op = "cycle"
    /\ ev.is_new /\ ev.passes
    /\ ev.archived /\ ~ev.sent
    /\ ev.last_check # None /\ ev.h.datetime # None
    /\ ev.h.datetime[1] <= ev.last_check[1]

\* C5 as stated: with a non-empty watchlist, a record of any source whose
\* company equals no alias is neither archived nor alerted.
C5_AnySourceDropped ==
    [][(pc \in {"startup", "cycle"} /\ idx' = idx + 1) =>
        LET h == headlines[idx]
        IN (DOMAIN Watchlist[csv_files] # {} /\ EqualsNoAlias[csv_files, h.company]) =>
              /\ headlines_db_file' = headlines_db_file
              /\ alerts' = alerts]_vars

\* C5 amended: with a non-empty watchlist, a Stockwatch record whose company
\* equals no alias is neither archived nor alerted, in the startup pass and
\* in a cycle.
C5_StockwatchDropped ==
    [][(pc \in {"startup", "cycle"} /\ idx' = idx + 1) =>
        LET h == headlines[idx]
        IN (/\ h.source = "STOCKWATCH"
            /\ DOMAIN Watchlist[csv_files] # {}
            /\ EqualsNoAlias[csv_files, h.company]) =>
              /\ headlines_db_file' = headlines_db_file
              /\ alerts' = alerts]_vars

\* C5 happens: under the loaded watchlist, whose only Reliance alias is
\* "reliance", a pass has just dropped a new Stockwatch record of company "RIL".
C5_Witness ==
    /\ ev.op \in {"startup", "cycle"}
    /\ csv_files = "installed"
    /\ ev.h.source = "STOCKWATCH" /\ ev.h.company = "RIL"
    /\ ev.is_new
    /\ ~ev.archived /\ ~ev.sent

\* C6: when a configured reference list is missing or its read raises, or the
\* loaded set is empty, is_nifty500_match returns True for every company.
C6_FailOpen ==
    (ret # << >> /\ call.op = "is_nifty500_match") =>
        LET failed(f) == ~ReferenceLists[f].exists \/ CsvRaises(ReferenceLists[f])
        IN (\/ failed(call.primary)
            \/ call.configured /\ failed(call.additional)
            \/ LoadedCompanies(call) = {}) => ret[1]

\* C7: is_context_duplicate does not report a duplicate when every memory
\* entry scoring at or above the threshold against the incoming headline has
\* the incoming record's source.
C7_CrossSourceOnly ==
    (ret # << >> /\ call.op = "is_context_duplicate") =>
        ((\A k \in 1..Len(call.memory) :
              RatLeq(CONTEXTUAL_DEDUP_THRESHOLD,
                     Score[csv_files, call.headline_text, call.memory[k].headline])
                 => call.memory[k].source = call.source)
         => ~ret[1].is_dup)

\* C7 happens: the function was applied to a memory window whose only entries
\* at or above the threshold are of the incoming record's source.
C7_Witness ==
    /\ ret # << >>
    /\ call.op = "is_context_duplicate"
    /\ \E k \in 1..Len(call.memory) :
          /\ call.memory[k].source = call.source
          /\ RatLeq(CONTEXTUAL_DEDUP_THRESHOLD,
                    Score[csv_files, call.headline_text, call.memory[k].headline])
    /\ \E k \in 1..Len(call.memory) : call.memory[k].source # call.source
    /\ \A k \in 1..Len(call.memory) :
          RatLeq(CONTEXTUAL_DEDUP_THRESHOLD,
                 Score[csv_files, call.headline_text, call.memory[k].headline])
             => call.memory[k].source = call.source

\* C8: the best score is_context_duplicate returns is the greatest score over
\* the entries of another source, and it reports a duplicate exactly when one
\* of them scores at or above the threshold.
C8_MaxScoreInclusive ==
    (ret # << >> /\ call.op = "is_context_duplicate") =>
        LET compared == { k \in 1..Len(call.memory) : call.memory[k].source # call.source }
            scores == { Score[csv_files, call.headline_text, call.memory[k].headline] :
                          k \in compared }
        IN /\ compared # {} => /\ ret[1].best_score \in scores
                               /\ \A sc \in scores : RatLeq(sc, ret[1].best_score)
           /\ ret[1].is_dup <=> \E sc \in scores : RatLeq(CONTEXTUAL_DEDUP_THRESHOLD, sc)

\* C8 happens: the greatest score over the compared entries is exactly the
\* threshold, and the function reported a duplicate.
C8_Witness ==
    /\ ret # << >>
    /\ call.op = "is_context_duplicate"
    /\ LET scores == { Score[csv_files, call.headline_text, call.memory[k].headline] :
                         k \in { k \in 1..Len(call.memory) :
                                   call.memory[k].source # call.source } }
       IN /\ CONTEXTUAL_DEDUP_THRESHOLD \in scores
          /\ \A sc \in scores : RatLeq(sc, CONTEXTUAL_DEDUP_THRESHOLD)
    /\ ret[1].is_dup

\* C9 as stated: whenever check_and_notify returns, whatever the fetch
\* returned, the fingerprints and the memory window of the cycle are on disk
\* and the persisted last check is the time the cycle ended.
C9_PersistedAfterEveryCycle ==
    [][(pc \in {"loop", "cycle"} /\ pc' = "sleep") =>
        /\ last_check_file' = <<clock'>>
        /\ pc = "cycle" => /\ history_file' = seen_ids
                           /\ context_memory_file' = save_context_memory(context_memory, clock)]_vars

\* C9 amended: whenever check_and_notify returns from a cycle whose fetch
\* returned at least one record, the fingerprints and the memory window of
\* the cycle are on disk and the persisted last check is the time the cycle
\* ended.
C9_PersistedAfterNonEmptyCycle ==
    [][(pc = "cycle" /\ pc' = "sleep") =>
        /\ last_check_file' = <<clock'>>
        /\ history_file' = seen_ids
        /\ context_memory_file' = save_context_memory(context_memory, clock)]_vars

\* C9 happens: a cycle that alerted a record has just persisted.
C9_Witness ==
    /\ ev.op = "persisted"
    /\ pc = "sleep"
    /\ context_memory_file # << >>
    /\ history_file # {}
    /\ last_check_file = <<clock>>

\* the persisted last check does not go back or disappear
NotDecreased ==
    last_check_file # None =>
        last_check_file' # None /\ last_check_file'[1] >= last_check_file[1]

\* a pass has processed its last record and its fingerprints and memory
\* window are on disk after the step
PassPersisted ==
    /\ pc \in {"startup", "cycle"}
    /\ idx > Len(headlines)
    /\ history_file' = seen_ids
    /\ context_memory_file' = save_context_memory(context_memory, clock)

\* C10 as stated: the persisted last check changes only at the end of a pass
\* that processed every record and persisted its fingerprints and memory
\* window, and it never decreases.
C10_OnlyAfterCompletedPass ==
    [][last_check_file' # last_check_file => (PassPersisted /\ NotDecreased)]_vars

\* C10 amended: the persisted last check changes only at the end of a pass
\* that processed every record and persisted its fingerprints and memory
\* window, or when the loop is interrupted; it is then the time on the clock,
\* and it never decreases.
C10_CompletedPassOrInterrupt ==
    [][last_check_file' # last_check_file =>
        /\ PassPersisted \/ (pc \in {"loop", "cycle", "sleep"} /\ ev'.op = "interrupted")
        /\ last_check_file' = <<clock>>
        /\ NotDecreased]_vars

\* C10 happens: an interrupt in the middle of a cycle has just moved the
\* persisted last check forward.
C10_Witness ==
    /\ ev.op = "interrupted"
    /\ last_check_file = <<clock>>
    /\ clock > 0
    /\ alerts # [f \in Fingerprints |-> 0]
    /\ history_file = {}

\* C11: an operator interrupt, wherever the process is (startup pass, cycle,
\* the delay between cycles, the delay after an error), ends it with the time
\* on the clock written as the persisted last check.
C11_InterruptFlushes ==
    [][(pc # "down" /\ pc' = "down" /\ ev'.op \in {"interrupted", "uncaught"}) =>
          last_check_file' = save_last_check_timestamp(clock)]_vars

C13_ReadsFallBack ==
    ret # << >> =>
        LET invalid(type) == call.file.kind # "json" \/ ~isinstance(call.file.data, type)
        IN /\ (call.op = "load_seen" /\ invalid("list")) => ret[1] = {}
           /\ (call.op = "load_last_check_timestamp" /\ invalid("dict")) => ret[1] = None
           /\ (call.op = "load_context_memory" /\ invalid("list")) => ret[1] = << >>
           /\ (call.op = "log_error" /\ invalid("list")) => ret[1].errors = [list |-> << >>]

C15_ArchiveNewestFirst ==
    (ret # << >> /\ call.op = "save_headline_to_db") =>
        LET db == ret[1].db
            appended == ret[1].appended
        IN /\ Len(db) = Min(Len(call.db) + appended, 100)
           /\ \A i \in 1..Len(db) :
                 IF i <= appended
                 THEN /\ db[i].headline = call.records[appended - i + 1].headline
                      /\ db[i].source = call.records[appended - i + 1].source
                      /\ db[i].company = call.records[appended - i + 1].company
                 ELSE db[i] = call.db[i - appended]

\* C15 happens: two records were appended to an archive of 99 entries, 100
\* are kept and the oldest entry is gone.
C15_Witness ==
    /\ ret # << >>
    /\ call.op = "save_headline_to_db"
    /\ Len(call.db) = ARCHIVE_LIMIT - 1
    /\ ret[1].appended = 2
    /\ call.records[1].headline # call.records[2].headline
    /\ Len(ret[1].db) = ARCHIVE_LIMIT
    /\ ret[1].db[ARCHIVE_LIMIT] = call.db[ARCHIVE_LIMIT - 2]

\* C16: the archive is at every moment the archive of the run without the
\* category filter; and with the filter on, a results record that is new and
\* passes the entity filter is archived and not alerted, in the startup pass
\* and in a cycle.
C16_AlertingOnly ==
    /\ [](headlines_db_file = unfiltered.headlines_db_file)
    /\ [][(pc \in {"startup", "cycle"} /\ idx' = idx + 1) =>
            LET h == headlines[idx]
            IN (/\ exclude_results
                /\ IsResults[h.headline, h.category]
                /\ Fingerprint[h.headline] \notin seen_ids
                /\ EntityFilterPasses(h, csv_files)) =>
                   (Archived(h) /\ ~Alerted)]_vars

\* C16 happens: with an empty memory window a pass has just archived a
\* results record that the category filter alone kept from being alerted.
C16_Witness ==
    /\ ev.op \in {"startup", "cycle"}
    /\ exclude_results
    /\ IsResults[ev.h.headline, ev.h.category]
    /\ context_memory = << >>
    /\ ev.filtered
    /\ ev.archived /\ ~ev.sent
    /\ headlines_db_file[1].headline = ev.h.headline

\* the records in the order the sources delivered them: the Nuvama page from
\* its top, then the Stockwatch links from the first
DeliveredRecords ==
    LET nuvama_raw == scrape_nuvama(call.page, clock)
    IN [k \in 1..Len(nuvama_raw) |->
           [headline |-> nuvama_raw[k].headline, timestamp |-> nuvama_raw[k].timestamp,
            datetime |-> nuvama_raw[k].datetime, category |-> nuvama_raw[k].category,
            source |-> "NUVAMA", company |-> ""]]
       \o scrape_stockwatch(call.links, clock)

\* the records of one parsed time (of none for the key of datetime.min), in their order
OfTime(hs, t) ==
    LET at_time(h) == SortKey(h) = t
    IN SelectSeq(hs, at_time)

C18_FailedDeliveryNotRetried ==
    [][(pc \in {"startup", "cycle"} /\ idx' = idx + 1) =>
        LET h_id == Fingerprint[headlines[idx].headline]
        IN /\ (ev'.sent /\ ~ev'.delivered) =>
                 /\ context_memory' = context_memory
                 /\ pc' = pc
                 /\ alerts' = [alerts EXCEPT ![h_id] = @ + 1]
           /\ (\E j \in 1..(idx - 1) : Fingerprint[headlines[j].headline] = h_id) =>
                 alerts' = alerts]_vars

\* C18 happens: in a cycle send_telegram has just failed for the first of
\* two records, and the second is next.
C18_Witness ==
    /\ ev.op = "cycle"
    /\ pc = "cycle"
    /\ ev.sent /\ ~ev.delivered
    /\ alerts[ev.h_id] = 1
    /\ context_memory = << >>
    /\ idx = 2 /\ Len(headlines) = 2

\* C19: the score of a pair of texts is the score of the pair in the other
\* order, with the same watchlist and the same embedding signal.
C19_ScoreSymmetric ==
    (call.op = "contextual_similarity_score" /\ ret # << >>) =>
        ret[1] = contextual_similarity_score(Chars[call.headline_b], Chars[call.headline_a],
                                             Watchlist[csv_files], call.embedding)

\* C20: with the embedding signal off or on, the score of a pair of texts,
\* bonus included, is at least 0 and at most 1.
C20_ScoreInUnitInterval ==
    (call.op = "contextual_similarity_score" /\ ret # << >>) =>
        RatLeq(<<0, 1>>, ret[1]) /\ RatLeq(ret[1], <<1, 1>>)

\* the weighted sum of the call's configuration when every signal it uses is 1:
\* the sum of the weights used
UsedWeights ==
    WeightedScore(<<1, 1>>, <<1, 1>>, <<1, 1>>, <<1, 1>>, <<1, 1>>,
                  IF call.embedding = << >> THEN << >> ELSE << <<1, 1>> >>)

\* C21 as stated: in the configuration of every score call, without or with
\* the embedding signal, the weights of the signals used add up to 1.
C21_WeightsSumToOne ==
    (call.op = "contextual_similarity_score" /\ ret # << >>) => UsedWeights = <<1, 1>>

\* C21 as the code has it: the five weights used without the embedding signal
\* add up to 1, and the six weights used with it add up to 0.90.
C21_WeightsSumByConfiguration ==
    (call.op = "contextual_similarity_score" /\ ret # << >>) =>
        UsedWeights = (IF call.embedding = << >> THEN <<1, 1>> ELSE <<9, 10>>)

\* C21 happens: with the embedding signal on, a text scored against itself
\* with every signal at 1 gets 0.90 and the bonus, 0.98, below the cap.
C21_Witness ==
    /\ call.op = "contextual_similarity_score"
    /\ call.embedding = << <<1, 1>> >>
    /\ call.headline_a = call.headline_b
    /\ ret = << <<49, 50>> >>

\* C22: either canonical form of a text is left as it is by the same
\* canonicalization: applied to its own result, normalize_headline_for_exact_dedup
\* returns that result, and so does canonicalize_for_context.
C22_Idempotent ==
    /\ (call.op = "normalize_headline_for_exact_dedup" /\ ret # << >>) =>
          normalize_headline_for_exact_dedup(ret[1]) = ret[1]
    /\ (call.op = "canonicalize_for_context" /\ ret # << >>) =>
          canonicalize_for_context(ret[1]) = ret[1]

\* a signed percentage figure without its percent sign: a sign ("+", "-" or
\* the minus sign U+2212) and a number with or without decimals
SignedFigure(f) ==
    /\ Len(f) >= 2
    /\ f[1] \in {"+", "-", "MINUS"}
    /\ \A k \in 2..Len(f) : f[k] \in Digits \cup {"."}
    /\ f[2] \in Digits /\ f[Len(f)] \in Digits
    /\ Cardinality({ k \in 2..Len(f) : f[k] = "." }) <= 1

\* the texts a and b differ only in a parenthesized signed percentage figure
PercentVariants(a, b) ==
    \E i \in 1..Min(Len(a), Len(b)) :
        /\ a[i] = "(" /\ Slice(a, 1, i) = Slice(b, 1, i)
        /\ \E ea \in (i + 3)..Len(a), eb \in (i + 3)..Len(b) :
              /\ a[ea - 1] = "%" /\ a[ea] = ")"
              /\ b[eb - 1] = "%" /\ b[eb] = ")"
              /\ Slice(a, ea, Len(a)) = Slice(b, eb, Len(b))
              /\ SignedFigure(Slice(a, i + 1, ea - 2))
              /\ SignedFigure(Slice(b, i + 1, eb - 2))

\* C23: the normalized text the fingerprint is the digest of is the same for
\* two headlines that differ only in a parenthesized signed percentage
\* figure, and "ABC wins order (+3.4%)" and "ABC wins another order" have
\* different ones.
C23_FingerprintStability ==
    (call.op = "normalize_headline_for_exact_dedup" /\ ret # << >>) =>
        /\ \A t \in { c.text : c \in CanonCalls } :
              PercentVariants(Chars[call.text], Chars[t]) =>
                  ret[1] = normalize_headline_for_exact_dedup(Chars[t])
        /\ call.text = "ABC wins order (+3.4%)" =>
              ret[1] # normalize_headline_for_exact_dedup(Chars["ABC wins another order"])

\* the start of the year of the time t, and whether that year (2026 onwards,
\* up to 2028) has a 29 February
YearStart(t) == (t \div MinutesPerYear) * MinutesPerYear

IsLeapYear(t) == (2026 + t \div MinutesPerYear) % 4 = 0

\* C24: parse_timestamp_to_datetime returns now for "Just Now", now less n
\* minutes or hours for "<n> mins ago" and "<n> hours ago", the day and time
\* in the current year for a day, month and time without a year (29 February
\* included when the current year has one), the date and time a Stockwatch
\* timestamp names, and None for every other text.
C24_TimestampResolved ==
    (call.op = "parse_timestamp_to_datetime" /\ ret # << >>) =>
        ret[1] =
          CASE call.publish_timestamp.kind = "just_now" -> <<call.now_ist>>
            [] call.publish_timestamp.kind = "mins_ago" ->
                  <<call.now_ist - call.publish_timestamp.n>>
            [] call.publish_timestamp.kind = "hours_ago" ->
                  <<call.now_ist - 60 * call.publish_timestamp.n>>
            [] call.publish_timestamp.kind = "absolute" ->
                  <<YearStart(call.now_ist) + call.publish_timestamp.n>>
            [] call.publish_timestamp.kind = "leap_day" ->
                  IF IsLeapYear(call.now_ist)
                  THEN <<YearStart(call.now_ist) + 59 * MinutesPerDay + call.publish_timestamp.n>>
                  ELSE None
            [] call.publish_timestamp.kind = "stockwatch" -> <<call.publish_timestamp.n>>
            [] OTHER -> None

\* C25: during a cycle the memory window is the one loaded followed by the
\* deliveries of the cycle, and no delivery of the cycle scores at or above
\* the threshold against an earlier entry of another source, delivered in
\* this cycle or before: of two such records at most one is delivered.
C25_SameCycleVisible ==
    pc = "cycle" =>
        /\ Len(context_memory) >= Len(context_memory_file)
        /\ SubSeq(context_memory, 1, Len(context_memory_file)) = context_memory_file
        /\ \A j \in (Len(context_memory_file) + 1)..Len(context_memory) :
              \A i \in 1..(j - 1) :
                 context_memory[i].source # context_memory[j].source =>
                    ~AtThreshold(Score[csv_files, context_memory[j].headline,
                                       context_memory[i].headline])

\* C25 happens: the first record of a fetch was delivered and the second, of
\* the other source, has just been dropped by Layer B against it.
C25_Witness ==
    /\ pc = "cycle" /\ ev.op = "cycle"
    /\ idx = 3
    /\ ev.filtered /\ ~ev.sent
    /\ ~exclude_results
    /\ context_memory_file = << >>
    /\ Len(context_memory) = 1
    /\ context_memory[1].source # ev.h.source
    /\ AtThreshold(Score[csv_files, ev.h.headline, context_memory[1].headline])

\* C26: in a cycle whose fetch returned the only records fetched so far, a
\* Stockwatch record with a parsed publish time (the minute its timestamp
\* names) and an unseen fingerprint that the entity filter, the category
\* filter and Layer B let through is sent to send_telegram in that cycle.
C26_NoEventLost ==
    [][(pc = "cycle" /\ idx' = idx + 1 /\ fetched = Len(headlines)) =>
        LET h == headlines[idx]
        IN (/\ h.datetime # None
            /\ h.timestamp.kind = "stockwatch"
            /\ IsNew(Fingerprint[h.headline], seen_ids)
            /\ EntityFilterPasses(h, csv_files)
            /\ ~(exclude_results /\ IsResults[h.headline, h.category])
            /\ ~is_context_duplicate(h.headline, context_memory, h.source, csv_files).is_dup)
           => alerts'[Fingerprint[h.headline]] = alerts[Fingerprint[h.headline]] + 1]_vars

\* C27: the index page and /api/headlines show the archive the monitor's
\* appends wrote most recent first: the first entry shown is the one of the
\* record appended last, and an entry appended later is shown before every
\* entry appended earlier and before the entries the archive held already.
C27_DashboardNewestFirst ==
    (ret # << >> /\ call.op = "save_headline_to_db" /\ "route" \in DOMAIN ret[1]) =>
        LET shown == ret[1].headlines
            appended == ret[1].appended
        IN /\ Len(shown) = Len(ret[1].db)
           /\ \A i \in 1..Len(shown) :
                 IF i <= appended
                 THEN /\ shown[i].headline = call.records[appended - i + 1].headline
                      /\ shown[i].source = call.records[appended - i + 1].source
                 ELSE shown[i] = call.db[i - appended]

====
